---- MODULE Spec2Model ----
(***************************************************************************)
(* A model of the bounded autonomous tool-calling engine:                  *)
(*   - the sandboxed execution surface (ToolExecutor),                     *)
(*   - the bounded tool-call loops (implementer loops, context loop),      *)
(*   - the session/phase state machine and its event handlers,             *)
(*   - the delegation engine (the team lead loop).                         *)
(* Strings are TLA+ strings; a character is a string of length one.        *)
(***************************************************************************)
EXTENDS Naturals, Sequences, FiniteSets, TLC

VARIABLES
  \* ---- execution surface (one ToolExecutor call scenario) ----
  req,       \* the call: executor version, repoPath, tool name and input
  epc,       \* "ready" before ToolExecutor.execute runs, "done" after
  result,    \* the ToolResult triple returned by execute
  accessed,  \* absolute filesystem locations handed to fs.* so far
  spawned,   \* command lines handed to the shell so far
  disk,      \* the files on disk: absolute path |-> content
  calc,      \* one call of a function on its own: arguments and result
  \* ---- one run of a bounded tool-call loop ----
  lkind,     \* which loop function runs
  lmax,      \* its iteration ceiling
  liter,     \* its iteration counter
  lcalls,    \* reasoning-service calls it has made
  lpc,       \* "idle", "top" (loop test), "respond" (response in hand), "returned"
  lresp,     \* the response of the last reasoning-service call
  lexec,     \* the tool calls of that response that were executed
  lchanged,  \* changedFiles
  lwrote,    \* the paths of the write_file and apply_diff calls of the run
             \* that returned success
  lret,      \* what the loop returned
  lmsgs,     \* messages, the history the loop keeps for the reasoning
             \* service: its last entry, and whether it is and was sent
             \* well formed
  \* ---- the session store and the event handlers ----
  sess,      \* the agent_sessions row of the one (repo, issue) key
  last,      \* what the last handler or lead step did
  execLog,   \* the plans handed to runClaudeCodeExecute, in order
  approval,  \* the last plan reply: its class and the plan pending then
  \* ---- one run of the lead loop (runTeamLead) ----
  leadPc,    \* "idle", "top", "tools" (inside the for over tool_use), "returned"
  leadIter,  \* iterations
  leadCalls, \* reasoning-service calls the run has made
  leadQueue, \* the tool_use blocks of the response not yet processed
  leadSnap,  \* context.session: the row as the handler read it
  leadAsked, \* the run has surfaced a question to the human
  leadResult \* TeamLeadResult.status, with the persisted status on return

execVars == <<req, epc, result, accessed, spawned, disk, calc>>
loopVars == <<lkind, lmax, liter, lcalls, lpc, lresp, lexec, lchanged, lwrote,
              lret, lmsgs>>
sessVars == <<sess, last, execLog, approval>>
leadVars == <<leadPc, leadIter, leadCalls, leadQueue, leadSnap, leadAsked, leadResult>>
vars == <<req, epc, result, accessed, spawned, disk, calc,
          lkind, lmax, liter, lcalls, lpc, lresp, lexec, lchanged, lwrote, lret,
          lmsgs,
          sess, last, execLog, approval,
          leadPc, leadIter, leadCalls, leadQueue, leadSnap, leadAsked, leadResult>>

(***************************************************************************)
(* String helpers (JavaScript String.prototype and RegExp behaviour).      *)
(***************************************************************************)
Ch(s, i) == SubSeq(s, i, i)

\* String.prototype.startsWith
StartsWith(s, p) == Len(p) <= Len(s) /\ SubSeq(s, 1, Len(p)) = p

\* String.prototype.includes
Includes(s, p) == \E i \in 1..(Len(s) + 1) : StartsWith(SubSeq(s, i, Len(s)), p)

\* relativePath.replace(/^\/+/, '')
RECURSIVE StripLeadingSlashes(_)
StripLeadingSlashes(s) ==
  IF Len(s) > 0 /\ Ch(s, 1) = "/" THEN StripLeadingSlashes(Tail(s)) ELSE s

\* .replace(/\.\.\//g, ''): one left-to-right pass, matches do not overlap
RECURSIVE RemoveDotDotSlash(_)
RemoveDotDotSlash(s) ==
  IF Len(s) = 0 THEN ""
  ELSE IF StartsWith(s, "../") THEN RemoveDotDotSlash(SubSeq(s, 4, Len(s)))
  ELSE Ch(s, 1) \o RemoveDotDotSlash(Tail(s))

(***************************************************************************)
(* node:path on POSIX: path.sep, path.resolve, path.dirname.               *)
(***************************************************************************)
PathSep == "/"

\* the process working directory, against which a relative repoPath resolves
Cwd == "/"

\* s.split('/') as a sequence of segments
RECURSIVE SplitSlashFrom(_, _, _)
SplitSlashFrom(s, cur, acc) ==
  IF Len(s) = 0 THEN Append(acc, cur)
  ELSE IF Ch(s, 1) = "/" THEN SplitSlashFrom(Tail(s), "", Append(acc, cur))
  ELSE SplitSlashFrom(Tail(s), cur \o Ch(s, 1), acc)

SplitSlash(s) == SplitSlashFrom(s, "", <<>>)

\* normalisation of the segments: "" and "." vanish, ".." pops (never above /)
RECURSIVE NormSegs(_, _)
NormSegs(segs, stack) ==
  IF segs = <<>> THEN stack
  ELSE LET h == Head(segs) IN
       IF h = "" \/ h = "." THEN NormSegs(Tail(segs), stack)
       ELSE IF h = ".."
            THEN NormSegs(Tail(segs),
                          IF stack = <<>> THEN <<>>
                          ELSE SubSeq(stack, 1, Len(stack) - 1))
            ELSE NormSegs(Tail(segs), Append(stack, h))

RECURSIVE JoinAbs(_)
JoinAbs(stack) ==
  IF stack = <<>> THEN ""
  ELSE "/" \o Head(stack) \o JoinAbs(Tail(stack))

AbsFromSegs(stack) == IF stack = <<>> THEN "/" ELSE JoinAbs(stack)

\* path.resolve(a): absolute form of one path
pathResolve1(a) ==
  IF StartsWith(a, "/") THEN AbsFromSegs(NormSegs(SplitSlash(a), <<>>))
  ELSE AbsFromSegs(NormSegs(SplitSlash(Cwd \o "/" \o a), <<>>))

\* path.resolve(a, b): a later absolute argument discards the earlier one
pathResolve(a, b) ==
  IF StartsWith(b, "/") THEN pathResolve1(b)
  ELSE pathResolve1(a \o "/" \o b)

\* path.dirname of an absolute, normalised path
pathDirname(p) ==
  LET segs == NormSegs(SplitSlash(p), <<>>) IN
  IF segs = <<>> THEN "/" ELSE AbsFromSegs(SubSeq(segs, 1, Len(segs) - 1))

(***************************************************************************)
(* tools/definitions: the security tables.                                 *)
(***************************************************************************)
ALLOWED_COMMANDS ==
  << "npm test", "npm run test", "npm run build", "npm run lint",
     "npm run type-check", "npm run typecheck", "npm install", "npm ci",
     "npx tsc --noEmit", "npx eslint", "npx prettier" >>

PROTECTED_PATHS ==
  << ".env", ".env.local", ".env.production", ".git", "node_modules",
     "package-lock.json", ".github/workflows" >>

Range(f) == {f[i] : i \in DOMAIN f}

(***************************************************************************)
(* The filesystem under the executor: files only; a directory exists when  *)
(* a file lies below it.                                                   *)
(***************************************************************************)
DirPrefix(p) == IF p = "/" THEN "/" ELSE p \o "/"

IsFile(d, p) == p \in DOMAIN d

IsDir(d, p) == p = "/" \/ \E f \in DOMAIN d : StartsWith(f, DirPrefix(p))

\* every proper ancestor of an absolute path, and the path itself
Ancestors(p) ==
  LET segs == NormSegs(SplitSlash(p), <<>>) IN
  {AbsFromSegs(SubSeq(segs, 1, k)) : k \in 0..Len(segs)}

\* fs.readFile(p, 'utf-8')
fsReadFile(d, p) ==
  IF IsFile(d, p) THEN [ok |-> TRUE, value |-> d[p]]
  ELSE IF IsDir(d, p)
       THEN [ok |-> FALSE, value |-> "EISDIR: illegal operation on a directory"]
       ELSE [ok |-> FALSE, value |-> "ENOENT: no such file or directory"]

\* fs.mkdir(p, {recursive: true}): fails when a component is a file
fsMkdirOk(d, p) == \A a \in Ancestors(p) : ~IsFile(d, a)

\* fs.writeFile(p, c, 'utf-8'): fails on a directory
fsWriteOk(d, p) == ~IsDir(d, p) /\ fsMkdirOk(d, pathDirname(p))

PutFile(d, p, c) == [q \in (DOMAIN d) \cup {p} |-> IF q = p THEN c ELSE d[q]]

\* the entries fs.readdir(p) reports, as <<name, isDirectory>>
ReadDir(d, p) ==
  { LET rest == SplitSlash(SubSeq(f, Len(DirPrefix(p)) + 1, Len(f)))
    IN  <<Head(rest), Len(rest) > 1>> :
    f \in {g \in DOMAIN d : StartsWith(g, DirPrefix(p))} }

\* the filter of listDirectory / listRecursive: hidden names and node_modules
Listed(name) == ~StartsWith(name, ".") /\ name # "node_modules"

(***************************************************************************)
(* ToolExecutor: private helpers.                                          *)
(***************************************************************************)
maxOutputLength == 10000

Undefined == "<undefined>"

Ok(out) == [success |-> TRUE, output |-> out, error |-> Undefined]
Fail(out, err) == [success |-> FALSE, output |-> out, error |-> err]

\* What a method hands back to execute: the ToolResult it returned, or the
\* message of the error it threw; with the fs locations touched, the command
\* lines spawned and the disk it leaves.
Returned(res, acc, sp, d) ==
  [thrown |-> FALSE, res |-> res, acc |-> acc, sp |-> sp, disk |-> d]
Thrown(msg, acc, sp, d) ==
  [thrown |-> TRUE, res |-> Fail("", msg), acc |-> acc, sp |-> sp, disk |-> d]

TraversalError == "Path traversal not allowed"

\* a variant of the catch that lets the error go on to the caller
rethrowError(o) == IF o.thrown THEN [raised |-> o.res.error] ELSE o.res

\* the try/catch of execute: what the caller gets, a throw of the method
\* turned into a failed ToolResult that carries the message
catchError(o) == IF o.thrown THEN Fail("", o.res.error) ELSE o.res

\* resolvePath of the current executor: [ok, path]
resolvePath(repoPath, relativePath) ==
  LET normalizedRepoPath == pathResolve1(repoPath)
      cleanRelativePath == RemoveDotDotSlash(StripLeadingSlashes(relativePath))
      resolved == pathResolve(normalizedRepoPath, cleanRelativePath)
  IN  IF ~StartsWith(resolved, normalizedRepoPath \o PathSep)
         /\ resolved # normalizedRepoPath
      THEN [ok |-> FALSE, path |-> resolved]
      ELSE [ok |-> TRUE, path |-> resolved]

\* resolvePath of the earlier executor (tools/executor.ts)
resolvePathLegacy(repoPath, relativePath) ==
  LET resolved == pathResolve(repoPath, relativePath)
  IN  IF ~StartsWith(resolved, repoPath)
      THEN [ok |-> FALSE, path |-> resolved]
      ELSE [ok |-> TRUE, path |-> resolved]

ResolveFor(version, repoPath, relativePath) ==
  IF version = "legacy" THEN resolvePathLegacy(repoPath, relativePath)
  ELSE resolvePath(repoPath, relativePath)

\* a variant that knows the entries but not what lies below them
isProtectedPathExactOnly(relativePath) ==
  \E i \in DOMAIN PROTECTED_PATHS : relativePath = PROTECTED_PATHS[i]

isProtectedPath(relativePath) ==
  \E i \in DOMAIN PROTECTED_PATHS :
    LET protected_ == PROTECTED_PATHS[i] IN
       \/ relativePath = protected_
       \/ StartsWith(relativePath, protected_ \o "/")
       \/ StartsWith(relativePath, protected_ \o "\\")

truncateOutput(output) ==
  IF Len(output) > maxOutputLength
  THEN SubSeq(output, 1, maxOutputLength) \o "\n... (output truncated)"
  ELSE output

(***************************************************************************)
(* Array.prototype.sort() on strings (UTF-16 code unit order) and join.    *)
(***************************************************************************)
\* the characters of file names, in code unit order
AsciiOrder ==
  "-.0123456789ABCDEFGHIJKLMNOPQRSTUVWXYZ_abcdefghijklmnopqrstuvwxyz"

CodeUnit(c) == CHOOSE i \in 1..Len(AsciiOrder) : Ch(AsciiOrder, i) = c

RECURSIVE StrLess(_, _)
StrLess(a, b) ==
  IF Len(b) = 0 THEN FALSE
  ELSE IF Len(a) = 0 THEN TRUE
  ELSE IF Ch(a, 1) = Ch(b, 1) THEN StrLess(Tail(a), Tail(b))
  ELSE CodeUnit(Ch(a, 1)) < CodeUnit(Ch(b, 1))

RECURSIVE SortedSeq(_)
SortedSeq(S) ==
  IF S = {} THEN <<>>
  ELSE LET m == CHOOSE x \in S : \A y \in S \ {x} : StrLess(x, y)
       IN  <<m>> \o SortedSeq(S \ {m})

RECURSIVE JoinWith(_, _)
JoinWith(seq, sep) ==
  IF seq = <<>> THEN ""
  ELSE IF Len(seq) = 1 THEN seq[1]
  ELSE seq[1] \o sep \o JoinWith(Tail(seq), sep)

\* path.join(a, name) for a single trailing name: normalises a relative path
pathJoin(a, name) ==
  LET abs == StartsWith(a, "/")
      segs == NormSegs(SplitSlash(a \o "/" \o name), <<>>)
  IN  IF abs THEN AbsFromSegs(segs)
      ELSE IF segs = <<>> THEN "." ELSE JoinWith(segs, "/")

(***************************************************************************)
(* String.prototype.replace(pattern: string, replacement: string): the     *)
(* first occurrence only, with the $-patterns of the replacement expanded. *)
(***************************************************************************)
IndexOf(s, p) ==
  IF Includes(s, p)
  THEN CHOOSE i \in 1..(Len(s) + 1) :
         /\ StartsWith(SubSeq(s, i, Len(s)), p)
         /\ \A j \in 1..(i - 1) : ~StartsWith(SubSeq(s, j, Len(s)), p)
  ELSE 0

RECURSIVE ExpandReplacement(_, _, _, _)
ExpandReplacement(r, matched, before, after) ==
  IF Len(r) = 0 THEN ""
  ELSE IF StartsWith(r, "$$")
       THEN "$" \o ExpandReplacement(SubSeq(r, 3, Len(r)), matched, before, after)
  ELSE IF StartsWith(r, "$&")
       THEN matched \o ExpandReplacement(SubSeq(r, 3, Len(r)), matched, before, after)
  ELSE IF StartsWith(r, "$`")
       THEN before \o ExpandReplacement(SubSeq(r, 3, Len(r)), matched, before, after)
  ELSE IF StartsWith(r, "$'")
       THEN after \o ExpandReplacement(SubSeq(r, 3, Len(r)), matched, before, after)
  ELSE Ch(r, 1) \o ExpandReplacement(Tail(r), matched, before, after)

ReplaceFirst(content, original, replacement) ==
  LET i == IndexOf(content, original) IN
  IF i = 0 THEN content
  ELSE LET before == SubSeq(content, 1, i - 1)
           after == SubSeq(content, i + Len(original), Len(content))
       IN  before \o ExpandReplacement(replacement, original, before, after) \o after

(***************************************************************************)
(* ToolExecutor: the tool methods.  ver is the executor version, repo the  *)
(* constructor's repoPath, d the disk; proc is what a spawned process does *)
(* (exit code, stdout, stderr), chosen by the environment.                 *)
(***************************************************************************)
readFile(ver, repo, d, filePath) ==
  LET r == ResolveFor(ver, repo, filePath) IN
  IF ~r.ok THEN Thrown(TraversalError, {}, {}, d)
  ELSE LET c == fsReadFile(d, r.path) IN
       IF c.ok THEN Returned(Ok(truncateOutput(c.value)), {r.path}, {}, d)
       ELSE Thrown(c.value, {r.path}, {}, d)

writeFile(ver, repo, d, filePath, content) ==
  IF isProtectedPath(filePath)
  THEN Returned(Fail("", "Cannot modify protected path: " \o filePath), {}, {}, d)
  ELSE LET r == ResolveFor(ver, repo, filePath) IN
       IF ~r.ok THEN Thrown(TraversalError, {}, {}, d)
       ELSE LET dir == pathDirname(r.path) IN
            IF ~fsMkdirOk(d, dir)
            THEN Thrown("ENOTDIR: not a directory", {dir}, {}, d)
            ELSE IF IsDir(d, r.path)
            THEN Thrown("EISDIR: illegal operation on a directory",
                        {dir, r.path}, {}, d)
            ELSE Returned(Ok("Successfully wrote " \o ToString(Len(content))
                             \o " characters to " \o filePath),
                          {dir, r.path}, {}, PutFile(d, r.path, content))

\* listRecursive(fullPath, relativePath): <<lines, directories read>>;
\* entries are visited in name order
RECURSIVE listRecursive(_, _, _)
listRecursive(d, fullPath, relativePath) ==
  LET names == SortedSeq({e[1] : e \in {x \in ReadDir(d, fullPath) : Listed(x[1])}})
      sub(n) == listRecursive(d, DirPrefix(fullPath) \o n, pathJoin(relativePath, n))
      RECURSIVE walk(_)
      walk(ns) ==
        IF ns = <<>> THEN <<<<>>, {}>>
        ELSE LET n == Head(ns)
                 rest == walk(Tail(ns))
             IN  IF <<n, TRUE>> \in ReadDir(d, fullPath)
                 THEN << <<pathJoin(relativePath, n) \o "/">> \o sub(n)[1] \o rest[1],
                         sub(n)[2] \cup rest[2] >>
                 ELSE << <<pathJoin(relativePath, n)>> \o rest[1], rest[2] >>
      w == walk(names)
  IN  <<w[1], {fullPath} \cup w[2]>>

listDirectory(ver, repo, d, dirPath, recursive) ==
  LET r == ResolveFor(ver, repo, dirPath) IN
  IF ~r.ok THEN Thrown(TraversalError, {}, {}, d)
  ELSE IF ~IsDir(d, r.path)
  THEN Thrown(IF IsFile(d, r.path) THEN "ENOTDIR: not a directory"
              ELSE "ENOENT: no such file or directory", {r.path}, {}, d)
  ELSE IF recursive
  THEN LET l == listRecursive(d, r.path, dirPath) IN
       Returned(Ok(truncateOutput(JoinWith(l[1], "\n"))), l[2], {}, d)
  ELSE LET shown == {e \in ReadDir(d, r.path) : Listed(e[1])}
           lines == {IF e[2] THEN e[1] \o "/" ELSE e[1] : e \in shown}
       IN  Returned(Ok(truncateOutput(JoinWith(SortedSeq(lines), "\n"))),
                    {r.path}, {}, d)

\* pattern.replace(/"/g, '\\"')
RECURSIVE EscapeQuotes(_)
EscapeQuotes(s) ==
  IF Len(s) = 0 THEN ""
  ELSE IF Ch(s, 1) = "\"" THEN "\\" \o "\"" \o EscapeQuotes(Tail(s))
  ELSE Ch(s, 1) \o EscapeQuotes(Tail(s))

searchCode(repo, d, pattern, fileGlob, proc) ==
  LET command ==
        IF fileGlob # ""
        THEN "grep -rn " \o "\"" \o EscapeQuotes(pattern) \o "\""
             \o " --include=" \o "\"" \o fileGlob \o "\""
        ELSE "grep -rn " \o "\"" \o EscapeQuotes(pattern) \o "\""
             \o " --include=*.ts --include=*.tsx --include=*.js --include=*.jsx"
             \o " --include=*.json --include=*.css --include=*.html"
  IN  IF proc.code = 0
      THEN Returned(Ok(truncateOutput(proc.stdout)), {}, {command}, d)
      ELSE IF proc.code = 1
      THEN Returned(Ok("No matches found"), {}, {command}, d)
      ELSE Thrown("Command failed: " \o command, {}, {command}, d)

\* a variant that forgets the separating space
isAllowedByPrefix(command) ==
  \E i \in DOMAIN ALLOWED_COMMANDS : StartsWith(command, ALLOWED_COMMANDS[i])

\* the allow-list test of runCommand
isAllowed(command) ==
  \E i \in DOMAIN ALLOWED_COMMANDS :
    LET allowed == ALLOWED_COMMANDS[i] IN
    command = allowed \/ StartsWith(command, allowed \o " ")

runCommand(repo, d, command, proc) ==
  IF ~isAllowed(command)
  THEN Returned(Fail("", "Command not allowed. Allowed commands: "
                         \o JoinWith(ALLOWED_COMMANDS, ", ")), {}, {}, d)
  ELSE IF proc.code = 0
  THEN Returned(Ok(truncateOutput(
                  proc.stdout \o (IF proc.stderr # ""
                                  THEN "\nSTDERR:\n" \o proc.stderr ELSE ""))),
                {}, {command}, d)
  ELSE Returned(Fail(truncateOutput(proc.stdout),
                     IF proc.stderr # "" THEN proc.stderr
                     ELSE "Command failed: " \o command),
                {}, {command}, d)

\* a variant that takes the text to be there whatever the file holds
hasOriginalAlways(content, original) == TRUE

\* content.includes(original)
hasOriginal(content, original) == Includes(content, original)

NotFoundError ==
  "Original text not found in file. Make sure it matches exactly (including whitespace)."

applyDiff(ver, repo, d, filePath, original, replacement) ==
  IF isProtectedPath(filePath)
  THEN Returned(Fail("", "Cannot modify protected path: " \o filePath), {}, {}, d)
  ELSE LET r == ResolveFor(ver, repo, filePath) IN
       IF ~r.ok THEN Thrown(TraversalError, {}, {}, d)
       ELSE LET c == fsReadFile(d, r.path) IN
            IF ~c.ok THEN Thrown(c.value, {r.path}, {}, d)
            ELSE IF ~hasOriginal(c.value, original)
            THEN Returned(Fail("", NotFoundError), {r.path}, {}, d)
            ELSE Returned(Ok("Successfully applied diff to " \o filePath),
                          {r.path}, {},
                          PutFile(d, r.path,
                                  ReplaceFirst(c.value, original, replacement)))

\* ToolExecutor.execute: the dispatch, and the catch that turns a throw into
\* a failed ToolResult
execute(ver, repo, d, toolName, input, proc) ==
  CASE toolName = "read_file" -> readFile(ver, repo, d, input.path)
    [] toolName = "write_file" -> writeFile(ver, repo, d, input.path, input.content)
    [] toolName = "list_directory" ->
         listDirectory(ver, repo, d, input.path, input.recursive)
    [] toolName = "search_code" ->
         searchCode(repo, d, input.pattern, input.file_glob, proc)
    [] toolName = "run_command" -> runCommand(repo, d, input.command, proc)
    [] toolName = "apply_diff" ->
         applyDiff(ver, repo, d, input.path, input.original, input.replacement)
    [] OTHER -> Returned(Fail("", "Unknown tool: " \o toolName), {}, {}, d)

(***************************************************************************)
(* The values the variables hold while their part of the engine is not     *)
(* running.                                                                *)
(***************************************************************************)
\* a reasoning-service response: its text blocks, its tool_use blocks, its
\* stop_reason; throws when the API call rejects
(***************************************************************************)
(* messages: the history a loop sends with every call.  Kept are the role  *)
(* of its last entry, the number of tools that entry asked for, whether    *)
(* the entries so far alternate from a first user message with every tool  *)
(* request answered by as many results, and whether that held for every    *)
(* history sent.                                                           *)
(***************************************************************************)
NoMessages ==
  [last |-> "none", asked |-> 0, wellFormed |-> TRUE, sentWellFormed |-> TRUE]

\* const messages = [{ role: 'user', content: ... }]
FirstMessage == [NoMessages EXCEPT !.last = "user"]

\* messages.push({ role: 'assistant', content: response.content })
pushAssistant(h, nTools) ==
  [h EXCEPT !.last = "assistant", !.asked = nTools,
            !.wellFormed = @ /\ h.last = "user"]

\* messages.push({ role: 'user', content: ... }) with nResults tool results
pushUser(h, nResults) ==
  [h EXCEPT !.last = "user", !.asked = 0,
            !.wellFormed = @ /\ h.last = "assistant" /\ h.asked = nResults]

\* anthropic.messages.create({ ..., messages })
Sent(h) == [h EXCEPT !.sentWellFormed = @ /\ h.wellFormed /\ h.asked = 0]

NoCalc == [pc |-> "idle"]

NoResponse == [texts |-> <<>>, tools |-> <<>>, stop |-> "none", throws |-> FALSE]

LoopIdle ==
  /\ lkind = "none"
  /\ lmax = 0
  /\ liter = 0
  /\ lcalls = 0
  /\ lpc = "idle"
  /\ lresp = NoResponse
  /\ lexec = <<>>
  /\ lchanged = <<>>
  /\ lwrote = {}
  /\ lret = "none"
  /\ lmsgs = NoMessages

\* session.metadata: "" and FALSE stand for an absent key
EmptyMeta ==
  [scope |-> "", design |-> "", plan |-> "", implementedFiles |-> FALSE,
   testResults |-> FALSE, testsPassed |-> FALSE, prUrl |-> FALSE,
   pending_claude_code_plan |-> "", approved_claude_code_plan |-> "",
   use_basic_tools |-> FALSE, plan_modifications |-> FALSE,
   lastHumanResponse |-> FALSE, blockedReason |-> FALSE]

\* no row for the key
NoSession ==
  [exists |-> FALSE, phase |-> "none", status |-> "none", mode |-> "none",
   conversation |-> "empty", meta |-> EmptyMeta]

\* the record of the event in hand or last handled: its number, its type,
\* the row it found, what it wrote, what it ran, whether it entered
\* runTeamLead
NoLast ==
  [n |-> 0, ev |-> "none", phase0 |-> "none", status0 |-> "none",
   phases |-> <<>>, statuses |-> <<>>, caps |-> <<>>, notes |-> <<>>,
   lead |-> FALSE]

\* the plans approved while pending so far; and of the event in hand, when
\* it is a reply to a team-lead session: how the reply was read, what plan
\* was pending then, whether an implementer delegation has run since and
\* which way the first one went; the plan that went back for approval and
\* has had no reply yet, and the plan the reply in hand answers
NoApproval ==
  [class |-> "none", pending |-> "", approved |-> {}, delegated |-> FALSE,
   path |-> "none", offered |-> "", answers |-> ""]

LeadIdle ==
  /\ leadPc = "idle"
  /\ leadIter = 0
  /\ leadCalls = 0
  /\ leadQueue = <<>>
  /\ leadSnap = NoSession.meta
  /\ leadAsked = FALSE
  /\ leadResult = [status |-> "none", persisted |-> "none"]

SessionIdle ==
  /\ sess = NoSession
  /\ last = NoLast
  /\ execLog = <<>>
  /\ approval = NoApproval
  /\ LeadIdle

(***************************************************************************)
(* SessionService: the operations on the agent_sessions row.               *)
(***************************************************************************)
\* createSession: the inserted row
createSession(mode) ==
  [exists |-> TRUE, phase |-> "clarifying", status |-> "active", mode |-> mode,
   conversation |-> "empty", meta |-> EmptyMeta]

updatePhase(s, phase) == [s EXCEPT !.phase = phase]

updateStatus(s, status) == [s EXCEPT !.status = status]

\* addMessage: the conversation gains an entry
addMessage(s) == [s EXCEPT !.conversation = "nonempty"]

\* a variant that stores the update in place of the object
updateMetadataReplacing(s, update) ==
  [s EXCEPT !.meta = [k \in DOMAIN s.meta |->
                        IF k \in DOMAIN update THEN update[k] ELSE EmptyMeta[k]]]

\* updateMetadata: { ...existing, ...update }
updateMetadata(s, update) ==
  [s EXCEPT !.meta = [k \in DOMAIN s.meta |->
                        IF k \in DOMAIN update THEN update[k] ELSE s.meta[k]]]

(***************************************************************************)
(* The bounded tool-call loops.                                            *)
(***************************************************************************)
\* runBasicImplementer: const maxIterations = 1000
BasicMaxIterations == 1000

\* runImplementerAgent of services/agent-runner.ts: const maxIterations = 100
RunnerMaxIterations == 100

\* the pipeline runImplementer: const MAX_ITERATIONS = 50
ImplementerMAX_ITERATIONS == 50

\* runAgentWithContext: maxIterations = 5 unless the caller passes one
DefaultMaxIterations == 5

\* runDesigner and runPlanner pass maxIterations: 6
DesignerMaxIterations == 6

\* runTeamLead: const MAX_ITERATIONS = 25
MAX_ITERATIONS == 25

\* while (iterations < maxIterations)
LoopContinues(iterations, maxIterations) == iterations < maxIterations

COMPLETE_SENTINEL == "IMPLEMENTATION_COMPLETE"
BLOCKED_SENTINEL == "IMPLEMENTATION_BLOCKED:"

\* textOutput: the text blocks concatenated
textOutput(response) == JoinWith(response.texts, "")

\* the pipeline implementer tests each text block on its own
AnyBlockIncludes(response, sentinel) ==
  \E i \in DOMAIN response.texts : Includes(response.texts[i], sentinel)

\* repoPath of the executor the loops construct
LoopRepo == "/r"

\* one pass of for (const toolUse of toolUseBlocks): execute the call,
\* track the changed file
Tracked(st, c, o) ==
  [disk |-> o.disk, acc |-> st.acc \cup o.acc, sp |-> st.sp \cup o.sp,
   changed |-> IF c.name \in {"write_file", "apply_diff"}
                  /\ c.input.path \notin Range(st.changed)
               THEN Append(st.changed, c.input.path)
               ELSE st.changed,
   wrote |-> IF c.name \in {"write_file", "apply_diff"}
                /\ catchError(o).success
             THEN st.wrote \cup {c.input.path}
             ELSE st.wrote,
   done |-> Append(st.done, c.name)]

RunTool(ver, st, c, proc) ==
  Tracked(st, c, execute(ver, LoopRepo, st.disk, c.name, c.input, proc))

\* the whole for loop: the tool calls in the order requested
RunTools(ver, st, calls, proc) ==
  LET after[n \in 0..Len(calls)] ==
        IF n = 0 THEN st ELSE RunTool(ver, after[n - 1], calls[n], proc)
  IN  after[Len(calls)]

\* what one pass over the body of an implementer loop decides, given the
\* response: "complete", "blocked" or "continue", and whether the tool
\* calls of the response are executed first
BasicDecision(response) ==
  IF Includes(textOutput(response), COMPLETE_SENTINEL)
  THEN [how |-> "complete", runTools |-> FALSE]
  ELSE IF Includes(textOutput(response), BLOCKED_SENTINEL)
  THEN [how |-> "blocked", runTools |-> FALSE]
  ELSE [how |-> "continue", runTools |-> TRUE]

PipelineDecision(response) ==
  IF AnyBlockIncludes(response, COMPLETE_SENTINEL)
  THEN [how |-> "complete", runTools |-> TRUE]
  ELSE IF AnyBlockIncludes(response, BLOCKED_SENTINEL)
  THEN [how |-> "blocked", runTools |-> TRUE]
  ELSE [how |-> "continue", runTools |-> TRUE]

\* runAgentWithContext: no tool_use ends the loop at once; end_turn with a
\* non-empty first text block ends it after the tools have run
ContextDecision(response) ==
  IF response.tools = <<>> THEN [how |-> "response", runTools |-> FALSE]
  ELSE IF response.stop = "end_turn" /\ response.texts # <<>>
          /\ response.texts[1] # ""
  THEN [how |-> "response", runTools |-> TRUE]
  ELSE [how |-> "continue", runTools |-> TRUE]

Decision(kind, response) ==
  CASE kind = "runImplementer" -> PipelineDecision(response)
    [] kind = "runAgentWithContext" -> ContextDecision(response)
    [] OTHER -> BasicDecision(response)

\* the pushes of one pass over the loop body
messagesAfter(kind, h, response) ==
  LET n == Len(response.tools)
      answered == pushUser(pushAssistant(h, n), n)
  IN  IF response.throws THEN h
      ELSE CASE kind = "runImplementer" ->
                  LET h1 == IF n > 0 THEN answered ELSE pushAssistant(h, 0) IN
                  IF PipelineDecision(response).how = "continue"
                     /\ response.stop = "end_turn" /\ n = 0
                  THEN pushUser(h1, 0) ELSE h1
             [] kind = "runAgentWithContext" ->
                  IF n = 0 THEN h ELSE answered
             [] OTHER ->
                  IF BasicDecision(response).how # "continue" THEN h
                  ELSE answered

\* the session writes of the pipeline runImplementer on each way out
runImplementerReturn(s, how) ==
  CASE how = "complete" ->
         updateMetadata(addMessage(s), [implementedFiles |-> TRUE])
    [] how = "blocked" ->
         updateMetadata(updateStatus(s, "paused"), [blockedReason |-> TRUE])
    [] how = "ceiling" -> updateStatus(s, "paused")
    [] OTHER -> s

(***************************************************************************)
(* The execution-surface scenario: one call of ToolExecutor.execute on a   *)
(* small disk, for every call drawn from the inputs below.                 *)
(***************************************************************************)
MaxPathLen == 5

Alphabet == {".", "/", "r"}

RECURSIVE Strs(_)
Strs(n) ==
  IF n = 0 THEN {""}
  ELSE Strs(n - 1) \cup {s \o c : s \in Strs(n - 1), c \in Alphabet}

\* paths built around the protected entries, and a few longer ones
CraftedPaths ==
  UNION { {e, e \o "/x", e \o "\\x", e \o "x", "/" \o e, "./" \o e,
           "x/../" \o e, "x/" \o e} : e \in Range(PROTECTED_PATHS) }
  \cup {"src/a.ts", "src", "src/new/b.ts", "....//rr/r", "..//rr/r", "r/../../rr/r"}

PathInputs == Strs(MaxPathLen) \cup CraftedPaths

CommandInputs ==
  { c \o suffix : c \in Range(ALLOWED_COMMANDS) \cup {"npm", "rm -rf /", "ls", ""},
                  suffix \in {"", " ", " x", "x", ";ls", " && rm -rf /"} }
  \cup {" npm test", "NPM TEST", "sudo npm test"}

RepoPaths == {"/r", "/r/", "r"}

Versions == {"current", "legacy"}

PathTools == {"read_file", "write_file", "list_directory", "apply_diff"}

NoInput ==
  [path |-> "", content |-> "", recursive |-> FALSE, pattern |-> "",
   file_glob |-> "", command |-> "", original |-> "", replacement |-> ""]

\* replacement texts with the patterns String.prototype.replace expands,
\* and one that holds the original again
DollarReplacements == {"$&", "$$", "$'x", "Xab"}

ToolInputs ==
  { <<"read_file", [NoInput EXCEPT !.path = p]>> : p \in PathInputs }
  \cup { <<"write_file", [NoInput EXCEPT !.path = p, !.content = "new"]>> :
         p \in PathInputs }
  \cup { <<"list_directory", [NoInput EXCEPT !.path = p, !.recursive = b]>> :
         p \in PathInputs, b \in BOOLEAN }
  \cup { <<"apply_diff",
           [NoInput EXCEPT !.path = p, !.original = o, !.replacement = "X"]>> :
         p \in PathInputs, o \in {"ab", "zz"} }
  \cup { <<"apply_diff",
           [NoInput EXCEPT !.path = p, !.original = "ab", !.replacement = r]>> :
         p \in {"r", "src/a.ts"}, r \in DollarReplacements }
  \cup { <<"run_command", [NoInput EXCEPT !.command = c]>> : c \in CommandInputs }
  \cup { <<"search_code", [NoInput EXCEPT !.pattern = "a\"b", !.file_glob = g]>> :
         g \in {"", "*.ts"} }
  \cup { <<"delete_file", [NoInput EXCEPT !.path = "r"]>> }

Requests ==
  { [ver |-> v, repo |-> rp, tool |-> ti[1], input |-> ti[2]] :
    v \in Versions, rp \in RepoPaths, ti \in ToolInputs }

Procs ==
  { [code |-> 0, stdout |-> "ok", stderr |-> ""],
    [code |-> 0, stdout |-> "ok", stderr |-> "warn"],
    [code |-> 1, stdout |-> "", stderr |-> ""],
    [code |-> 2, stdout |-> "partial", stderr |-> "boom"] }

InitDisk ==
  [ p \in {"/r/r", "/r/.env", "/r/.git/config", "/r/src/a.ts",
           "/r/node_modules/m/i.js", "/rr/r", "/x"} |->
    CASE p = "/r/r" -> "abab"
      [] p = "/r/.env" -> "KEY=ab"
      [] p = "/rr/r" -> "outside ab"
      [] OTHER -> "ab" ]

Pending == [success |-> FALSE, output |-> "", error |-> "<pending>"]

InitExec ==
  /\ req \in Requests
  /\ epc = "ready"
  /\ result = Pending
  /\ accessed = {}
  /\ spawned = {}
  /\ disk = InitDisk
  /\ calc = NoCalc
  /\ LoopIdle
  /\ SessionIdle

\* the caller awaits executor.execute(toolName, input)
Execute ==
  /\ epc = "ready"
  /\ \E proc \in Procs :
       LET o == execute(req.ver, req.repo, disk, req.tool, req.input, proc) IN
       /\ result' = catchError(o)
       /\ accessed' = accessed \cup o.acc
       /\ spawned' = spawned \cup o.sp
       /\ disk' = o.disk
  /\ epc' = "done"
  /\ UNCHANGED <<req, calc, loopVars, sessVars, leadVars>>

\* the caller repeats an apply_diff that succeeded, with the same arguments
ExecuteAgain ==
  /\ epc = "done"
  /\ req.tool = "apply_diff"
  /\ result.success
  /\ \E proc \in Procs :
       LET o == execute(req.ver, req.repo, disk, req.tool, req.input, proc) IN
       /\ result' = catchError(o)
       /\ accessed' = accessed \cup o.acc
       /\ spawned' = spawned \cup o.sp
       /\ disk' = o.disk
  /\ epc' = "again"
  /\ UNCHANGED <<req, calc, loopVars, sessVars, leadVars>>

NextExec == Execute \/ ExecuteAgain

SpecExec == InitExec /\ [][NextExec]_vars

(***************************************************************************)
(* Claims about the execution surface (checked under SpecExec).            *)
(***************************************************************************)
InsideRoot(repo, p) ==
  LET root == pathResolve1(repo) IN p = root \/ StartsWith(p, root \o "/")

\* C1: for every path handed to read_file, write_file, list_directory or
\* apply_diff, either the call fails with 'Path traversal not allowed' and
\* touches nothing, or every filesystem location it touches is the root or
\* a descendant of it (a sibling whose name starts with the root's name is
\* not one).
C1_PathConfinement ==
  (epc = "done" /\ req.tool \in PathTools) =>
     \/ (~result.success /\ result.error = TraversalError /\ accessed = {})
     \/ \A a \in accessed : InsideRoot(req.repo, a)

\* the protection test as the claim words it, character by character
NamedProtected(p) ==
  \E i \in 1..Len(PROTECTED_PATHS) :
    LET e == PROTECTED_PATHS[i] IN
    /\ Len(p) >= Len(e)
    /\ SubSeq(p, 1, Len(e)) = e
    /\ (Len(p) = Len(e) \/ Ch(p, Len(e) + 1) \in {"/", "\\"})

\* C2: a write_file or apply_diff whose path equals a protected entry, or
\* begins with one followed by '/' or '\', fails with 'Cannot modify
\* protected path', touches no filesystem location and leaves the disk as
\* it was.
C2_ProtectedPathsRefused ==
  (epc = "done" /\ req.tool \in {"write_file", "apply_diff"}
     /\ NamedProtected(req.input.path)) =>
     /\ ~result.success
     /\ StartsWith(result.error, "Cannot modify protected path")
     /\ accessed = {}
     /\ disk = InitDisk

C2_Witness ==
  /\ epc = "done"
  /\ req.tool = "write_file"
  /\ req.input.path = ".git/x"
  /\ ~result.success
  /\ disk = InitDisk

\* the allow-list test as the claim words it
NamedAllowed(c) ==
  \E i \in 1..Len(ALLOWED_COMMANDS) :
    LET e == ALLOWED_COMMANDS[i] IN
    /\ Len(c) >= Len(e)
    /\ SubSeq(c, 1, Len(e)) = e
    /\ (Len(c) = Len(e) \/ Ch(c, Len(e) + 1) = " ")

\* C3: a run_command whose command neither equals an allowed entry nor
\* begins with one followed by a space fails with 'Command not allowed'
\* and spawns nothing; run_command spawns a process only for a command
\* that passes the test, and then exactly that command.
C3_CommandAllowList ==
  (epc = "done" /\ req.tool = "run_command") =>
     /\ ~NamedAllowed(req.input.command) =>
           /\ ~result.success
           /\ StartsWith(result.error, "Command not allowed")
           /\ spawned = {}
     /\ spawned # {} =>
           (NamedAllowed(req.input.command) /\ spawned = {req.input.command})

C3_Witness ==
  /\ epc = "done"
  /\ req.tool = "run_command"
  /\ req.input.command = "npm testx"
  /\ ~result.success
  /\ spawned = {}

(***************************************************************************)
(* One run of a bounded tool-call loop, step by step: the reasoning-       *)
(* service call, the handling of its response, the way out at the ceiling. *)
(***************************************************************************)
NoRequest == [ver |-> "none", repo |-> "", tool |-> "none", input |-> NoInput]

ExecIdle ==
  /\ req = NoRequest
  /\ epc = "idle"
  /\ result = Pending
  /\ accessed = {}
  /\ spawned = {}
  /\ disk = InitDisk
  /\ calc = NoCalc

ToolUse(name, input) == [name |-> name, input |-> input]

WriteA == ToolUse("write_file", [NoInput EXCEPT !.path = "src/a.ts", !.content = "new"])
WriteB == ToolUse("write_file", [NoInput EXCEPT !.path = "src/b.ts", !.content = "new"])
DiffR == ToolUse("apply_diff",
                 [NoInput EXCEPT !.path = "r", !.original = "ab", !.replacement = "X"])
DiffMiss == ToolUse("apply_diff",
                    [NoInput EXCEPT !.path = "src/a.ts", !.original = "zz",
                                    !.replacement = "X"])
ReadA == ToolUse("read_file", [NoInput EXCEPT !.path = "src/a.ts"])
ListRoot == ToolUse("list_directory", [NoInput EXCEPT !.path = "."])

Response(texts, tools, stop) ==
  [texts |-> texts, tools |-> tools, stop |-> stop, throws |-> FALSE]

ApiError == [texts |-> <<>>, tools |-> <<>>, stop |-> "none", throws |-> TRUE]

\* what the reasoning service may answer an implementer
ImplementerResponses ==
  { Response(<<"Let me look around.">>, <<>>, "end_turn"),
    Response(<<>>, <<WriteA>>, "tool_use"),
    Response(<<>>, <<DiffMiss>>, "tool_use"),
    Response(<<"Reading first.">>, <<ReadA, WriteA>>, "tool_use"),
    Response(<<"All done. IMPLEMENTATION_COMPLETE">>, <<>>, "end_turn"),
    Response(<<"IMPLEMENTATION_COMPLETE after this write">>, <<WriteB>>, "tool_use"),
    Response(<<"IMPLEMENTATION_BLOCKED: no access">>, <<>>, "end_turn"),
    Response(<<"IMPLEMENTATION_BLOCKED: tests fail">>, <<DiffR>>, "tool_use"),
    Response(<<"IMPLEMENTATION_", "COMPLETE">>, <<>>, "end_turn"),
    Response(<<"First I will">>, <<>>, "max_tokens"),
    ApiError }

\* what it may answer runAgentWithContext
ContextResponses ==
  { Response(<<"Scope is clear. PHASE_COMPLETE">>, <<>>, "end_turn"),
    Response(<<>>, <<ListRoot>>, "tool_use"),
    Response(<<"Checking the file.">>, <<ReadA>>, "end_turn"),
    Response(<<"">>, <<ReadA>>, "end_turn"),
    Response(<<"Writing anyway.">>, <<WriteA>>, "tool_use"),
    ApiError }

ResponsesOf(kind) ==
  IF kind = "runAgentWithContext" THEN ContextResponses ELSE ImplementerResponses

\* the executor class each loop constructs
ExecutorOf(kind) == IF kind = "runImplementerAgent" THEN "legacy" ELSE "current"

LoopRuns ==
  { [kind |-> "runBasicImplementer", max |-> BasicMaxIterations],
    [kind |-> "runImplementerAgent", max |-> RunnerMaxIterations],
    [kind |-> "runImplementer", max |-> ImplementerMAX_ITERATIONS],
    [kind |-> "runAgentWithContext", max |-> DefaultMaxIterations],
    [kind |-> "runAgentWithContext", max |-> DesignerMaxIterations] }

\* the row handleImplement hands to the pipeline runImplementer
ImplementingSession == updatePhase(createSession("pipeline"), "implementing")

\* await anthropic.messages.create(...) at the top of the loop body
LoopCall ==
  /\ lpc = "top"
  /\ LoopContinues(liter, lmax)
  /\ liter' = liter + 1
  /\ lcalls' = lcalls + 1
  /\ lresp' \in ResponsesOf(lkind)
  /\ lexec' = <<>>
  /\ lpc' = "respond"
  /\ lmsgs' = Sent(lmsgs)
  /\ UNCHANGED <<lkind, lmax, lchanged, lwrote, lret, execVars, sessVars,
                 leadVars>>

\* the tool calls of the response in hand, executed when the body gets to
\* them
ToolsRun(proc) ==
  LET st0 == [disk |-> disk, acc |-> accessed, sp |-> spawned,
              changed |-> lchanged, wrote |-> lwrote, done |-> <<>>]
  IN  IF lresp.throws \/ ~Decision(lkind, lresp).runTools THEN st0
      ELSE RunTools(ExecutorOf(lkind), st0, lresp.tools, proc)

\* how the body leaves the iteration
WayOut == IF lresp.throws THEN "throw" ELSE Decision(lkind, lresp).how

BodyDone(st, how) ==
  /\ disk' = st.disk
  /\ accessed' = st.acc
  /\ spawned' = st.sp
  /\ lchanged' = st.changed
  /\ lwrote' = st.wrote
  /\ lexec' = st.done
  /\ lmsgs' = messagesAfter(lkind, lmsgs, lresp)
  /\ IF how = "continue"
     THEN lpc' = "top" /\ lret' = lret /\ sess' = sess
     ELSE /\ lpc' = "returned"
          /\ lret' = how
          /\ sess' = IF lkind = "runImplementer"
                     THEN runImplementerReturn(sess, how) ELSE sess

\* the rest of the loop body, for the response in hand
LoopHandle ==
  /\ lpc = "respond"
  /\ \E proc \in Procs : BodyDone(ToolsRun(proc), WayOut)
  /\ UNCHANGED <<lkind, lmax, liter, lcalls, lresp, req, epc, result, calc,
                 last, execLog, approval, leadVars>>

\* the code after the loop
LoopCeiling ==
  /\ lpc = "top"
  /\ ~LoopContinues(liter, lmax)
  /\ lpc' = "returned"
  /\ IF lkind = "runAgentWithContext"
     THEN \* one final call, without tools
          /\ lcalls' = lcalls + 1
          /\ \E final \in {r \in ContextResponses : r.tools = <<>>} :
               /\ lresp' = final
               /\ lret' = IF final.throws THEN "throw" ELSE "response"
          /\ lexec' = <<>>
          /\ sess' = sess
          /\ lmsgs' = Sent(pushUser(lmsgs, 0))
     ELSE /\ lret' = "ceiling"
          /\ sess' = IF lkind = "runImplementer"
                     THEN runImplementerReturn(sess, "ceiling") ELSE sess
          /\ UNCHANGED <<lcalls, lresp, lexec, lmsgs>>
  /\ UNCHANGED <<lkind, lmax, liter, lchanged, lwrote, execVars,
                 last, execLog, approval, leadVars>>

(***************************************************************************)
(* Text helpers of the handlers: toLowerCase and trim.                     *)
(***************************************************************************)
UpperChars == "ABCDEFGHIJKLMNOPQRSTUVWXYZ"
LowerChars == "abcdefghijklmnopqrstuvwxyz"

LowerCh(c) ==
  IF \E i \in 1..Len(UpperChars) : Ch(UpperChars, i) = c
  THEN Ch(LowerChars, CHOOSE i \in 1..Len(UpperChars) : Ch(UpperChars, i) = c)
  ELSE c

RECURSIVE toLowerCase(_)
toLowerCase(s) ==
  IF Len(s) = 0 THEN "" ELSE LowerCh(Ch(s, 1)) \o toLowerCase(Tail(s))

IsSpace(c) == c \in {" ", "\n", "\t"}

RECURSIVE trimStart(_)
trimStart(s) == IF Len(s) > 0 /\ IsSpace(Ch(s, 1)) THEN trimStart(Tail(s)) ELSE s

RECURSIVE trimEnd(_)
trimEnd(s) ==
  IF Len(s) > 0 /\ IsSpace(Ch(s, Len(s)))
  THEN trimEnd(SubSeq(s, 1, Len(s) - 1)) ELSE s

trim(s) == trimEnd(trimStart(s))

\* handleTeamLeadHumanResponse: how a reply to a pending plan is read
classifyPlanReply(comment_body) ==
  LET lowerComment == trim(toLowerCase(comment_body)) IN
  IF lowerComment = "approve" \/ StartsWith(lowerComment, "approve")
     \/ Includes(lowerComment, "approved")
  THEN "approve"
  ELSE IF lowerComment = "basic" \/ Includes(lowerComment, "basic tools")
  THEN "basic"
  ELSE IF StartsWith(lowerComment, "modify:") THEN "modify"
  ELSE "other"

(***************************************************************************)
(* analyzeTaskComplexity.  COMPLEXITY_THRESHOLDS is imported from          *)
(* tools/definitions; its values are the ones the README tabulates.        *)
(***************************************************************************)
\* the thresholds before the score threshold was lowered
thresholdsBeforeLowering ==
  [fileCountThreshold |-> 3,
   complexKeywords |-> <<"refactor", "migrate", "upgrade", "tab", "navigation",
                         "route", "layout">>,
   scoreThreshold |-> 40]

COMPLEXITY_THRESHOLDS ==
  [fileCountThreshold |-> 3,
   complexKeywords |-> <<"refactor", "migrate", "upgrade", "tab", "navigation",
                         "route", "layout">>,
   scoreThreshold |-> 25]

\* the alternatives of /\.(ts|tsx|js|jsx|css|json|md)/g, in order
FileExts == <<"ts", "tsx", "js", "jsx", "css", "json", "md">>

RECURSIVE CountFileRefs(_)
CountFileRefs(s) ==
  IF Len(s) = 0 THEN 0
  ELSE IF \E i \in DOMAIN FileExts : StartsWith(s, "." \o FileExts[i])
  THEN LET i == CHOOSE k \in DOMAIN FileExts :
                  /\ StartsWith(s, "." \o FileExts[k])
                  /\ \A j \in 1..(k - 1) : ~StartsWith(s, "." \o FileExts[j])
       IN  1 + CountFileRefs(SubSeq(s, Len(FileExts[i]) + 2, Len(s)))
  ELSE CountFileRefs(Tail(s))

RECURSIVE SumSeq(_)
SumSeq(q) == IF q = <<>> THEN 0 ELSE Head(q) + SumSeq(Tail(q))

analyzeTaskComplexity(plan, design) ==
  LET combined == toLowerCase(plan \o " " \o design)
      files == IF CountFileRefs(combined) > COMPLEXITY_THRESHOLDS.fileCountThreshold
               THEN 30 ELSE 0
      keywords == SumSeq([i \in DOMAIN COMPLEXITY_THRESHOLDS.complexKeywords |->
                           IF Includes(combined, COMPLEXITY_THRESHOLDS.complexKeywords[i])
                           THEN 15 ELSE 0])
      wide == IF Includes(combined, "codebase") \/ Includes(combined, "project-wide")
              THEN 25 ELSE 0
      arch == IF Includes(combined, "architectural") \/ Includes(combined, "restructure")
                 \/ Includes(combined, "redesign")
              THEN 20 ELSE 0
      migration == IF Includes(combined, "from") /\ Includes(combined, "to")
                      /\ (Includes(combined, "migrate") \/ Includes(combined, "convert"))
                   THEN 20 ELSE 0
      score == files + keywords + wide + arch + migration
  IN  [score |-> score, useClaudeCode |-> score >= COMPLEXITY_THRESHOLDS.scoreThreshold]

\* the artifacts the specialist capabilities may produce
ScopeText == "label only"
DesignText == "as is"
PlanTexts == {"edit a.ts", "migrate codebase"}

(***************************************************************************)
(* What one handler run does to the row, in order: the row as it stands,   *)
(* the phases and statuses written, the capabilities run.                  *)
(***************************************************************************)
\* notes: a mark for each message appended, each metadata write, each
\* "already processed" comment posted, each row inserted, each insert the
\* database refused, and a cancellation that arrived while the run of the
\* event was in flight
Begin(s) ==
  [s |-> s, phases |-> <<>>, statuses |-> <<>>, caps |-> <<>>, notes |-> <<>>]

Note(tr, mark) == [tr EXCEPT !.notes = Append(@, mark)]

WritePhase(tr, phase) ==
  [tr EXCEPT !.s = updatePhase(@, phase), !.phases = Append(@, phase)]

WriteStatus(tr, status) ==
  [tr EXCEPT !.s = updateStatus(@, status), !.statuses = Append(@, status)]

WriteMessage(tr) == Note([tr EXCEPT !.s = addMessage(@)], "message")

WriteMeta(tr, update) ==
  Note([tr EXCEPT !.s = updateMetadata(@, update)], "meta")

RanCap(tr, name) == [tr EXCEPT !.caps = Append(@, name)]

\* what the reasoning service makes of one phase: the phase is complete
\* (PHASE_COMPLETE in the text), a question goes back to the human, or the
\* call rejects
PhaseOutcomes == {"complete", "question", "throw"}

\* the outcomes of the successive capabilities of a cascade; what follows
\* the first capability that does not complete never runs
CascadeOutcomes ==
  {outs \in [1..4 -> PhaseOutcomes] :
     \A k \in 1..3 : outs[k] # "complete" => outs[k + 1] = "question"}

(***************************************************************************)
(* The pipeline capabilities; outs[i] is the outcome of the i-th           *)
(* capability of the cascade that starts at k.                             *)
(***************************************************************************)
runPlanner(tr, outs, k, plan) ==
  LET t0 == RanCap(tr, "planner") IN
  IF outs[k] = "throw" THEN t0
  ELSE IF outs[k] = "complete"
  THEN WriteMeta(WritePhase(WriteMessage(t0), "completed"), [plan |-> plan])
  ELSE WriteMessage(t0)

runDesigner(tr, outs, k, plan) ==
  LET t0 == RanCap(tr, "designer") IN
  IF outs[k] = "throw" THEN t0
  ELSE IF outs[k] = "complete"
  THEN runPlanner(WriteMeta(WritePhase(WriteMessage(t0), "planning"),
                            [design |-> DesignText]),
                  outs, k + 1, plan)
  ELSE WriteMessage(t0)

runScope(tr, outs, k, plan) ==
  LET t0 == RanCap(tr, "scope") IN
  IF outs[k] = "throw" THEN t0
  ELSE IF outs[k] = "complete"
  THEN runDesigner(WriteMeta(WritePhase(WriteMessage(t0), "designing"),
                             [scope |-> ScopeText]),
                   outs, k + 1, plan)
  ELSE WriteMessage(t0)

runClarifier(tr, outs, k, plan) ==
  LET t0 == RanCap(tr, "clarifier") IN
  IF outs[k] = "throw" THEN t0
  ELSE IF outs[k] = "complete"
  THEN runScope(WritePhase(WriteMessage(t0), "scoping"), outs, k + 1, plan)
  ELSE WriteMessage(t0)

\* the pipeline runImplementer as one step: how the loop ended
ImplementerOutcomes == {"complete", "blocked", "ceiling", "throw"}

runImplementer(tr, how) ==
  LET t0 == RanCap(tr, "implementer") IN
  CASE how = "complete" -> WriteMeta(WriteMessage(t0), [implementedFiles |-> TRUE])
    [] how = "blocked" -> WriteMeta(WriteStatus(t0, "paused"), [blockedReason |-> TRUE])
    [] how = "ceiling" -> WriteStatus(RanCap(t0, "ceiling"), "paused")
    [] OTHER -> t0

\* the four checks of runTester, in the order they run
TesterChecks == <<"Type Check", "Lint", "Build", "Unit Tests">>

\* the command each check hands to run_command
TesterCommand(name) ==
  CASE name = "Type Check" -> "npx tsc --noEmit"
    [] name = "Lint" -> "npm run lint"
    [] name = "Build" -> "npm run build"
    [] OTHER -> "npm test"

\* the exit code of the process behind each check
TesterRuns == [Range(TesterChecks) -> {0, 1}]

\* result.success of executor.execute('run_command', { command })
checkSucceeded(name, codes) ==
  isAllowed(TesterCommand(name)) /\ codes[name] = 0

\* a variant in which a lint failure blocks as well
testerVerdictLintBlocks(codes) ==
  \A name \in Range(TesterChecks) : checkSucceeded(name, codes)

\* allPassed of runTester: falsified by the type check, the build and the
\* unit tests; the line that lets lint falsify it is commented out
testerVerdict(codes) ==
  \A name \in {"Type Check", "Build", "Unit Tests"} : checkSucceeded(name, codes)

\* runTester: the four checks through the executor, then the verdict; the
\* notes take the name of each check that failed
runTester(tr, codes) ==
  LET allPassed == testerVerdict(codes)
      failed == SelectSeq(TesterChecks, LAMBDA name : ~checkSucceeded(name, codes))
      ran == RanCap(tr, "tester")
      t0 == WriteMeta(WriteMessage([ran EXCEPT !.notes = @ \o failed]),
                      [testResults |-> TRUE, testsPassed |-> allPassed])
  IN  IF allPassed THEN WritePhase(t0, "testing") ELSE t0

\* runPRCreator of the pipeline (agents/pr-creator): its source is not in
\* the tree; it runs as a capability
runPRCreator(tr) == RanCap(tr, "pr-creator")

(***************************************************************************)
(* The handlers of the pipeline events, each as the row trace it leaves.   *)
(***************************************************************************)
handleAgentStart(s, outs, plan) ==
  IF s.exists /\ s.status = "active"
  THEN runClarifier(Begin(s), outs, 1, plan)
  ELSE IF s.exists
  THEN \* the insert violates UNIQUE(repo, issue_number) and throws
       Note(Begin(s), "insert refused")
  ELSE runClarifier(Note(Begin(createSession("pipeline")), "created"),
                    outs, 1, plan)

\* a variant that hands every reply to the clarifier
handleHumanResponseUnrouted(s, outs, plan) ==
  IF ~s.exists \/ s.status # "active" THEN Begin(s)
  ELSE runClarifier(WriteMessage(Begin(s)), outs, 1, plan)

handleHumanResponse(s, outs, plan) ==
  IF ~s.exists \/ s.status # "active" THEN Begin(s)
  ELSE LET t0 == WriteMessage(Begin(s)) IN
       CASE s.phase = "clarifying" -> runClarifier(t0, outs, 1, plan)
         [] s.phase = "scoping" -> runScope(t0, outs, 1, plan)
         [] s.phase = "designing" -> runDesigner(t0, outs, 1, plan)
         [] s.phase = "planning" -> runPlanner(t0, outs, 1, plan)
         [] s.phase = "completed" -> Note(t0, "explained")
         [] OTHER -> t0

handleTestFrom(tr, codes) ==
  LET t1 == runTester(tr, codes) IN
  IF testerVerdict(codes) THEN runPRCreator(t1) ELSE t1

handleImplement(s, how, codes) ==
  IF ~s.exists THEN Begin(s)
  ELSE IF s.phase # "planning" /\ s.phase # "completed" THEN Begin(s)
  ELSE LET t1 == runImplementer(WritePhase(Begin(s), "implementing"), how) IN
       IF how = "throw" \/ t1.s.status # "active" THEN t1
       ELSE handleTestFrom(t1, codes)

handleTest(s, codes) ==
  IF ~s.exists THEN Begin(s) ELSE handleTestFrom(Begin(s), codes)

handleCreatePR(s) == IF ~s.exists THEN Begin(s) ELSE runPRCreator(Begin(s))

handleAgentStop(s) ==
  IF ~s.exists \/ s.status # "active" THEN Begin(s)
  ELSE WriteStatus(Begin(s), "cancelled")

handlePostMerge(s) ==
  IF s.exists /\ s.status = "active"
  THEN WritePhase(WriteStatus(Begin(s), "completed"), "completed")
  ELSE Begin(s)

(***************************************************************************)
(* The specialists as the lead reaches them: runAgentForTeamLead and what  *)
(* stands behind it.  env is what the outside world answers during the     *)
(* delegation: the reasoning service (llm, plan), the claude CLI (cli),    *)
(* the direct implementer loop (basic), git and GitHub (pr).               *)
(***************************************************************************)
AgentNames ==
  {"clarifier", "scope", "designer", "planner", "implementer", "tester",
   "pr-creator"}

NoEnv ==
  [llm |-> "complete", plan |-> "", cli |-> "ok", basic |-> "complete",
   pr |-> "created"]

BasicOutcomes == {"complete", "blocked", "ceiling", "throw"}

AgentEnvs(agentName) ==
  CASE agentName \in {"clarifier", "scope", "designer"} ->
         {[NoEnv EXCEPT !.llm = l] : l \in PhaseOutcomes}
    [] agentName = "planner" ->
         {[NoEnv EXCEPT !.llm = l, !.plan = p] :
            l \in PhaseOutcomes, p \in PlanTexts}
    [] agentName = "implementer" ->
         {[NoEnv EXCEPT !.cli = c, !.basic = b] :
            c \in {"ok", "fail"}, b \in BasicOutcomes}
    [] agentName = "pr-creator" ->
         {[NoEnv EXCEPT !.pr = o] : o \in {"created", "nochanges", "throw"}}
    [] OTHER -> {NoEnv}

\* an AgentResult: data and humanQuestion by their truthiness, changedFiles
\* by whether data carries the list, executed the plans handed to
\* runClaudeCodeExecute on the way
AgentResult(success, output, needsHumanInput, humanQuestion, data, changedFiles) ==
  [success |-> success, output |-> output, needsHumanInput |-> needsHumanInput,
   humanQuestion |-> humanQuestion, data |-> data,
   changedFiles |-> changedFiles, executed |-> <<>>,
   pendingClaudeCodePlan |-> ""]

\* the catch of runAgentForTeamLead
CaughtResult == AgentResult(FALSE, "", FALSE, FALSE, FALSE, FALSE)

runBasicImplementer(env) ==
  CASE env.basic = "complete" -> AgentResult(TRUE, "done", FALSE, FALSE, TRUE, TRUE)
    [] env.basic = "blocked" -> AgentResult(FALSE, "blocked", TRUE, TRUE, FALSE, FALSE)
    [] env.basic = "ceiling" -> AgentResult(FALSE, "ceiling", TRUE, TRUE, TRUE, TRUE)
    [] OTHER -> CaughtResult

executeWithClaudeCode(env, approvedPlan) ==
  [(IF env.cli = "ok"
    THEN AgentResult(TRUE, "summary", FALSE, FALSE, TRUE, TRUE)
    ELSE AgentResult(FALSE, "", TRUE, TRUE, FALSE, FALSE))
   EXCEPT !.executed = <<approvedPlan>>]

\* a variant that runs whatever plan the session holds
planOnFile(metadata) ==
  IF metadata.approved_claude_code_plan # ""
  THEN metadata.approved_claude_code_plan
  ELSE metadata.plan

\* const approvedPlan = session.metadata.approved_claude_code_plan
approvedPlanOf(metadata) == metadata.approved_claude_code_plan

runImplementerAgent(metadata, env) ==
  LET approvedPlan == approvedPlanOf(metadata)
      pendingPlan == metadata.pending_claude_code_plan
      complexity == analyzeTaskComplexity(metadata.plan, metadata.design)
  IN  IF approvedPlan # "" THEN executeWithClaudeCode(env, approvedPlan)
      ELSE IF complexity.useClaudeCode /\ pendingPlan = ""
      THEN IF env.cli = "ok"
           THEN \* the plan of runClaudeCodePlan goes back for approval
                [AgentResult(TRUE, "claude plan", TRUE, TRUE, TRUE, FALSE)
                   EXCEPT !.pendingClaudeCodePlan = "claude plan"]
           ELSE runBasicImplementer(env)
      ELSE runBasicImplementer(env)

runTesterAgent == AgentResult(TRUE, "results", FALSE, FALSE, TRUE, FALSE)

runPRCreatorAgent(env) ==
  CASE env.pr = "created" -> AgentResult(TRUE, "PR created", FALSE, FALSE, TRUE, FALSE)
    [] env.pr = "nochanges" ->
         AgentResult(FALSE, "No changes to commit", FALSE, FALSE, FALSE, FALSE)
    [] OTHER -> AgentResult(FALSE, "", TRUE, FALSE, FALSE, FALSE)

\* the single-call specialists: clarifier, scope, designer, planner
runTextAgent(agentName, env) ==
  IF env.llm = "throw" THEN CaughtResult
  ELSE LET isComplete == env.llm = "complete"
           needsHuman == ~isComplete /\ agentName = "clarifier"
           output == CASE agentName = "scope" -> ScopeText
                       [] agentName = "designer" -> DesignText
                       [] agentName = "planner" -> env.plan
                       [] OTHER -> "questions"
       IN  AgentResult(TRUE, output, needsHuman, needsHuman, TRUE, FALSE)

runAgentForTeamLead(agentName, metadata, env) ==
  CASE agentName = "implementer" -> runImplementerAgent(metadata, env)
    [] agentName = "tester" -> runTesterAgent
    [] agentName = "pr-creator" -> runPRCreatorAgent(env)
    [] OTHER -> runTextAgent(agentName, env)

(***************************************************************************)
(* runTeamLead, step by step.  leadSnap is context.session.metadata: the   *)
(* row as the handler read it, which the run never reads again for its     *)
(* delegations.                                                            *)
(***************************************************************************)
LeadToolUse(name, agent) == [name |-> name, agent |-> agent]

Think == LeadToolUse("think", "none")
Delegate(agent) == LeadToolUse("delegate_to_agent", agent)
AskHuman == LeadToolUse("ask_human", "none")
MarkComplete == LeadToolUse("mark_complete", "none")
MarkBlocked == LeadToolUse("mark_blocked", "none")
UnknownTool == LeadToolUse("run_command", "none")

\* the tool_use blocks of what the reasoning service may answer the lead;
\* <<>> is a text-only answer
LeadToolLists ==
  {<<>>, <<Think>>, <<AskHuman>>, <<MarkComplete>>, <<MarkBlocked>>,
   <<UnknownTool>>}
  \cup {<<Delegate(a)>> : a \in AgentNames}
  \cup {<<AskHuman, Delegate("implementer")>>,
        <<Delegate("clarifier"), Delegate("scope")>>,
        <<Delegate("planner"), AskHuman>>,
        <<Think, MarkComplete>>}

\* bound on the plans logged as executed
MaxExec == 2

\* if (Object.keys(metadataUpdate).length > 0)
hasMetadataUpdate(agentName, agentResult) ==
  /\ agentResult.success /\ agentResult.data
  /\ agentName \in {"scope", "designer", "planner", "implementer", "tester",
                    "pr-creator"}

\* the metadataUpdate runTeamLead builds from a delegation's result
metadataUpdateOf(agentName, agentResult) ==
  CASE agentName = "scope" -> [scope |-> agentResult.output]
    [] agentName = "designer" -> [design |-> agentResult.output]
    [] agentName = "planner" -> [plan |-> agentResult.output]
    [] agentName = "implementer" ->
         [implementedFiles |-> agentResult.changedFiles]
    [] agentName = "tester" -> [testResults |-> TRUE]
    [] OTHER -> [prUrl |-> TRUE]

\* a variant in which ask_human pushes a tool result and goes on
leadOutcomeAskGoesOn(toolUse, agentResult) ==
  CASE toolUse.name = "delegate_to_agent"
         /\ agentResult.needsHumanInput /\ agentResult.humanQuestion ->
         "waiting_for_human"
    [] toolUse.name = "delegate_to_agent"
         /\ toolUse.agent = "pr-creator" /\ agentResult.success -> "completed"
    [] toolUse.name = "mark_complete" -> "completed"
    [] toolUse.name = "mark_blocked" -> "blocked"
    [] OTHER -> "continue"

\* how the switch over toolUse.name leaves the run: the status it returns,
\* or "continue" when it breaks out to the next tool_use block
leadOutcome(toolUse, agentResult) ==
  CASE toolUse.name = "delegate_to_agent"
         /\ agentResult.needsHumanInput /\ agentResult.humanQuestion ->
         "waiting_for_human"
    [] toolUse.name = "delegate_to_agent"
         /\ toolUse.agent = "pr-creator" /\ agentResult.success -> "completed"
    [] toolUse.name = "ask_human" -> "waiting_for_human"
    [] toolUse.name = "mark_complete" -> "completed"
    [] toolUse.name = "mark_blocked" -> "blocked"
    [] OTHER -> "continue"

\* the question posted to the issue: ask_human, or a delegation's question
surfacesQuestion(toolUse, agentResult) ==
  \/ toolUse.name = "ask_human"
  \/ /\ toolUse.name = "delegate_to_agent"
     /\ agentResult.needsHumanInput /\ agentResult.humanQuestion

\* the row writes of one case of the switch, as a trace
leadWrites(tr, toolUse, agentResult) ==
  LET t0 == IF toolUse.name = "delegate_to_agent"
               /\ agentResult.output = "ceiling"
            THEN RanCap(tr, "ceiling") ELSE tr
      t1 == IF toolUse.name = "delegate_to_agent"
               /\ hasMetadataUpdate(toolUse.agent, agentResult)
            THEN WriteMeta(t0, metadataUpdateOf(toolUse.agent, agentResult))
            ELSE t0
      t2 == IF surfacesQuestion(toolUse, agentResult) THEN WriteMessage(t1) ELSE t1
  IN  CASE toolUse.name = "mark_blocked" -> WriteStatus(t2, "paused")
        [] toolUse.name = "mark_complete"
           \/ (/\ toolUse.name = "delegate_to_agent"
               /\ ~surfacesQuestion(toolUse, agentResult)
               /\ toolUse.agent = "pr-creator" /\ agentResult.success) ->
             WriteStatus(WritePhase(t2, "completed"), "completed")
        [] OTHER -> t2

\* the writes of a run folded into the record of its event
WithWrites(l, tr) ==
  [l EXCEPT !.phases = @ \o tr.phases, !.statuses = @ \o tr.statuses,
            !.caps = @ \o tr.caps, !.notes = @ \o tr.notes]

\* const response = await anthropic.messages.create(...)
LeadCall ==
  /\ leadPc = "top"
  /\ LoopContinues(leadIter, MAX_ITERATIONS)
  /\ leadIter' = leadIter + 1
  /\ leadCalls' = leadCalls + 1
  /\ \/ \* the call rejects: the exception leaves the run and the handler
        /\ leadPc' = "returned"
        /\ leadResult' = [status |-> "throw", persisted |-> sess.status]
        /\ leadQueue' = <<>>
     \/ \E toolUseBlocks \in LeadToolLists :
          /\ leadQueue' = toolUseBlocks
          /\ leadPc' = IF toolUseBlocks = <<>> THEN "top" ELSE "tools"
          /\ leadResult' = leadResult
  /\ UNCHANGED <<leadSnap, leadAsked, execVars, loopVars, sessVars>>

\* what the run remembers of a delegation to the implementer: the way the
\* first one of the run went, and the plan that went back for approval
implementerPath(agentResult) ==
  IF agentResult.executed # <<>> THEN "execute"
  ELSE IF agentResult.pendingClaudeCodePlan # "" THEN "plan"
  ELSE "basic"

Delegated(agentResult) ==
  [approval EXCEPT
     !.delegated = TRUE,
     !.path = IF approval.path = "none" THEN implementerPath(agentResult)
              ELSE @,
     !.offered = IF agentResult.pendingClaudeCodePlan # ""
                 THEN agentResult.pendingClaudeCodePlan ELSE @]

\* one pass of for (const toolUse of toolUseBlocks)
LeadTool ==
  /\ leadPc = "tools"
  /\ leadQueue # <<>>
  /\ LET toolUse == Head(leadQueue) IN
     \E env \in AgentEnvs(toolUse.agent) :
       LET agentResult == IF toolUse.name = "delegate_to_agent"
                          THEN runAgentForTeamLead(toolUse.agent, leadSnap, env)
                          ELSE CaughtResult
           tr == leadWrites(Begin(sess), toolUse, agentResult)
           outcome == leadOutcome(toolUse, agentResult)
       IN  /\ Len(execLog) + Len(agentResult.executed) <= MaxExec
           /\ sess' = tr.s
           /\ last' = WithWrites(last, tr)
           /\ execLog' = execLog \o agentResult.executed
           /\ approval' = IF toolUse.name = "delegate_to_agent"
                             /\ toolUse.agent = "implementer"
                          THEN Delegated(agentResult)
                          ELSE approval
           /\ leadAsked' = (leadAsked \/ surfacesQuestion(toolUse, agentResult))
           /\ leadQueue' = Tail(leadQueue)
           /\ IF outcome = "continue"
              THEN /\ leadPc' = IF Tail(leadQueue) = <<>> THEN "top" ELSE "tools"
                   /\ leadResult' = leadResult
              ELSE /\ leadPc' = "returned"
                   /\ leadResult' = [status |-> outcome, persisted |-> tr.s.status]
  /\ UNCHANGED <<leadIter, leadCalls, leadSnap, execVars, loopVars>>

\* the code after the while loop
LeadCeiling ==
  /\ leadPc = "top"
  /\ ~LoopContinues(leadIter, MAX_ITERATIONS)
  /\ LET tr == WriteStatus(RanCap(Begin(sess), "ceiling"), "paused") IN
       /\ sess' = tr.s
       /\ last' = WithWrites(last, tr)
       /\ leadResult' = [status |-> "blocked", persisted |-> tr.s.status]
  /\ leadPc' = "returned"
  /\ UNCHANGED <<leadIter, leadCalls, leadQueue, leadSnap, leadAsked,
                 execLog, approval, execVars, loopVars>>

(***************************************************************************)
(* The events, as the orchestrator routes them.  A handler that reaches    *)
(* runTeamLead starts a lead run; the other handlers run to their end in   *)
(* one step.  An event is taken up when no lead run is in flight, except   *)
(* agent_stop and post_merge_monitor, which may arrive at any time.        *)
(***************************************************************************)
LeadAtRest == leadPc \in {"idle", "returned"}

\* the event in hand is not a reply to a team-lead session
NoReply == [NoApproval EXCEPT !.approved = approval.approved,
                             !.offered = approval.offered]

\* bound on the events of a behaviour
MaxEvents == 3

\* bound on the reasoning-service calls of a lead run started by an event
MaxLeadCalls == 1

MoreEvents == last.n < MaxEvents

\* the record of an event: the row it found, what it wrote, what it ran
Record(ev, s0, tr, lead) ==
  [n |-> last.n + 1, ev |-> ev, phase0 |-> s0.phase, status0 |-> s0.status,
   phases |-> tr.phases, statuses |-> tr.statuses, caps |-> tr.caps,
   notes |-> tr.notes, lead |-> lead]

\* no run of runTeamLead in this process: the locals of the previous run
\* went with its process
NoLead ==
  /\ leadPc' = "idle"
  /\ leadIter' = 0
  /\ leadCalls' = 0
  /\ leadQueue' = <<>>
  /\ leadSnap' = NoSession.meta
  /\ leadAsked' = FALSE
  /\ leadResult' = [status |-> "none", persisted |-> "none"]

\* runTeamLead({ session, payload, ... }) is entered
StartLead(session) ==
  /\ leadPc' = "top"
  /\ leadIter' = 0
  /\ leadCalls' = 0
  /\ leadQueue' = <<>>
  /\ leadSnap' = session.meta
  /\ leadAsked' = FALSE
  /\ leadResult' = [status |-> "none", persisted |-> "none"]

\* what human replies are drawn from
Comments == {" Approve ", "basic", "modify: fewer files", "looks fine"}

\* agent_start
HandleTeamLead ==
  /\ LeadAtRest /\ MoreEvents
  /\ IF ~sess.exists
     THEN LET tr == Note(Begin(createSession("team-lead")), "created") IN
            /\ sess' = tr.s
            /\ last' = Record("agent_start", sess, tr, TRUE)
            /\ StartLead(tr.s)
     ELSE IF sess.status = "paused"
     THEN LET tr == WriteStatus(Begin(sess), "active") IN
            /\ sess' = tr.s
            /\ last' = Record("agent_start", sess, tr, TRUE)
            /\ StartLead(sess)
     ELSE IF sess.status = "completed"
     THEN /\ last' = Record("agent_start", sess, Begin(sess), FALSE)
          /\ sess' = sess
          /\ NoLead
     ELSE /\ last' = Record("agent_start", sess, Begin(sess), TRUE)
          /\ sess' = sess
          /\ StartLead(sess)
  /\ approval' = NoReply
  /\ UNCHANGED <<execLog, execVars, loopVars>>

\* the metadataUpdate of handleTeamLeadHumanResponse
replyUpdate(pendingPlan, comment_body) ==
  LET class == classifyPlanReply(comment_body) IN
  IF pendingPlan = "" THEN [lastHumanResponse |-> TRUE]
  ELSE CASE class = "approve" ->
              [lastHumanResponse |-> TRUE,
               approved_claude_code_plan |-> pendingPlan,
               pending_claude_code_plan |-> ""]
         [] class = "basic" ->
              [lastHumanResponse |-> TRUE, pending_claude_code_plan |-> "",
               use_basic_tools |-> TRUE]
         [] class = "modify" ->
              [lastHumanResponse |-> TRUE, plan_modifications |-> TRUE]
         [] OTHER -> [lastHumanResponse |-> TRUE]

\* human_response on a session whose metadata.mode is 'team-lead'
HandleTeamLeadHumanResponse ==
  /\ LeadAtRest /\ MoreEvents
  /\ sess.exists /\ sess.mode = "team-lead"
  /\ \E comment_body \in Comments :
       IF sess.status # "active" /\ sess.status # "paused"
       THEN /\ last' = Record("human_response", sess, Begin(sess), FALSE)
            /\ NoLead
            /\ approval' = NoReply
            /\ sess' = sess
       ELSE LET pendingPlan == sess.meta.pending_claude_code_plan
                class == classifyPlanReply(comment_body)
                t1 == WriteMeta(WriteMessage(Begin(sess)),
                                replyUpdate(pendingPlan, comment_body))
                tr == IF sess.status = "paused" THEN WriteStatus(t1, "active")
                      ELSE t1
            IN  /\ sess' = tr.s
                /\ last' = Record("human_response", sess, tr, TRUE)
                /\ approval' =
                     [class |-> class, pending |-> pendingPlan,
                      approved |-> IF pendingPlan # "" /\ class = "approve"
                                   THEN approval.approved \cup {pendingPlan}
                                   ELSE approval.approved,
                      delegated |-> FALSE, path |-> "none",
                      offered |-> "", answers |-> approval.offered]
                /\ StartLead(tr.s)
  /\ UNCHANGED <<execLog, execVars, loopVars>>

\* a handler that never reaches runTeamLead
Handled(ev, tr, lead) ==
  /\ sess' = tr.s
  /\ last' = Record(ev, sess, tr, lead)
  /\ NoLead
  /\ approval' = NoReply
  /\ UNCHANGED <<execLog, execVars, loopVars>>

\* agent_start_pipeline
HandleAgentStart ==
  /\ LeadAtRest /\ MoreEvents
  /\ \E outs \in CascadeOutcomes, plan \in PlanTexts :
       Handled("agent_start_pipeline", handleAgentStart(sess, outs, plan), FALSE)

\* human_response on any other session, or on none
HandleHumanResponse ==
  /\ LeadAtRest /\ MoreEvents
  /\ ~(sess.exists /\ sess.mode = "team-lead")
  /\ \E outs \in CascadeOutcomes, plan \in PlanTexts :
       Handled("human_response", handleHumanResponse(sess, outs, plan), FALSE)

\* agent_implement
HandleImplement ==
  /\ LeadAtRest /\ MoreEvents
  /\ \E how \in ImplementerOutcomes, codes \in TesterRuns :
       Handled("agent_implement", handleImplement(sess, how, codes), FALSE)

\* agent_test
HandleTest ==
  /\ LeadAtRest /\ MoreEvents
  /\ \E codes \in TesterRuns :
       Handled("agent_test", handleTest(sess, codes), FALSE)

\* agent_create_pr
HandleCreatePR ==
  /\ LeadAtRest /\ MoreEvents
  /\ Handled("agent_create_pr", handleCreatePR(sess), FALSE)

\* agent_stop and post_merge_monitor while a lead run is in flight: the row
\* changes under the run, the record of the run's event stays
Arrived(ev, tr) ==
  /\ sess' = tr.s
  /\ IF LeadAtRest
     THEN last' = Record(ev, sess, tr, FALSE) /\ NoLead /\ approval' = NoReply
     ELSE /\ last' = [last EXCEPT
                       !.n = @ + 1,
                       !.notes = IF "cancelled" \in Range(tr.statuses)
                                 THEN Append(@, "cancelled in flight") ELSE @]
          /\ UNCHANGED <<approval, leadVars>>
  /\ UNCHANGED <<execLog, execVars, loopVars>>

\* agent_stop
HandleAgentStop ==
  /\ MoreEvents
  /\ Arrived("agent_stop", handleAgentStop(sess))

\* post_merge_monitor
HandlePostMerge ==
  /\ MoreEvents
  /\ Arrived("post_merge_monitor", handlePostMerge(sess))

\* a reasoning-service call of a lead run an event started; the way out at
\* the ceiling is explored in the runs of SpecLoop
LeadCallInEvent == leadCalls < MaxLeadCalls /\ LeadCall

(***************************************************************************)
(* The event-driven system: one (repo, issue) key, events in any order.    *)
(***************************************************************************)
InitSession == ExecIdle /\ LoopIdle /\ SessionIdle

NextSession ==
  \/ HandleTeamLead
  \/ HandleTeamLeadHumanResponse
  \/ HandleAgentStart
  \/ HandleHumanResponse
  \/ HandleImplement
  \/ HandleTest
  \/ HandleCreatePR
  \/ HandleAgentStop
  \/ HandlePostMerge
  \/ LeadCallInEvent
  \/ LeadTool

SpecSession == InitSession /\ [][NextSession]_vars

(***************************************************************************)
(* One run of one bounded loop: a tool-call loop of a capability, or the   *)
(* lead loop on the row handleTeamLead has just created.                   *)
(***************************************************************************)
InitLoop ==
  /\ ExecIdle
  /\ last = NoLast
  /\ execLog = <<>>
  /\ approval = NoApproval
  /\ leadIter = 0
  /\ leadCalls = 0
  /\ leadQueue = <<>>
  /\ leadAsked = FALSE
  /\ leadResult = [status |-> "none", persisted |-> "none"]
  /\ liter = 0
  /\ lcalls = 0
  /\ lresp = NoResponse
  /\ lexec = <<>>
  /\ lchanged = <<>>
  /\ lwrote = {}
  /\ lret = "none"
  /\ \/ \E run \in LoopRuns :
          /\ lkind = run.kind
          /\ lmax = run.max
          /\ lpc = "top"
          /\ sess = IF run.kind = "runImplementer" THEN ImplementingSession
                    ELSE NoSession
          /\ leadPc = "idle"
          /\ leadSnap = NoSession.meta
          /\ lmsgs = FirstMessage
     \/ /\ lkind = "runTeamLead"
        /\ lmax = MAX_ITERATIONS
        /\ lpc = "idle"
        /\ sess = createSession("team-lead")
        /\ leadPc = "top"
        /\ leadSnap = createSession("team-lead").meta
        /\ lmsgs = NoMessages

NextLoop ==
  \/ LoopCall
  \/ LoopHandle
  \/ LoopCeiling
  \/ LeadCall
  \/ LeadTool
  \/ LeadCeiling

SpecLoop == InitLoop /\ [][NextLoop]_vars

(***************************************************************************)
(* The bounded loops: claims C4, C5 and C10.                               *)
(***************************************************************************)
\* C4: every bounded loop (runBasicImplementer, the pipeline runImplementer,
\* runAgentWithContext with maxIterations 5 or 6, runTeamLead) has made at
\* most as many reasoning-service calls as its ceiling, at every point of
\* the run and so when it returns.
C4_CallsWithinCeiling ==
  /\ lcalls <= lmax
  /\ leadCalls <= MAX_ITERATIONS

ImplementerLoops == {"runBasicImplementer", "runImplementerAgent", "runImplementer"}

\* the response text contains one of the two sentinels
HasSentinel(response) ==
  \/ Includes(textOutput(response), COMPLETE_SENTINEL)
  \/ Includes(textOutput(response), BLOCKED_SENTINEL)

\* C5: in every implementer loop, once the body has handled a response
\* whose text contains IMPLEMENTATION_COMPLETE or IMPLEMENTATION_BLOCKED:,
\* the loop has ended in that iteration and none of the tool calls of that
\* response has been executed.
C5_SentinelPrecedence ==
  (/\ lkind \in ImplementerLoops
   /\ lpc \in {"top", "returned"}
   /\ liter > 0
   /\ lret # "ceiling"
   /\ ~lresp.throws
   /\ HasSentinel(lresp))
  => (lpc = "returned" /\ lexec = <<>>)

\* C10: once a lead run has surfaced a question (ask_human, or the question
\* of a delegated capability), the run has returned, and for as long as
\* the question stands as the run's there is no further reasoning-service
\* call, no further tool call of the same response is taken up, and no
\* delegation happens; the lead loop runs again only when an event starts
\* a new run.
C10_NoProgressPastQuestion ==
  [][leadAsked =>
       /\ leadPc = "returned"
       /\ leadResult.status = "waiting_for_human"
       /\ leadAsked' => UNCHANGED <<leadIter, leadCalls, leadQueue, execLog>>]_vars

\* a question surfaced while a tool call of the same response was still to
\* come and iterations were left
C10_Witness ==
  /\ leadAsked
  /\ leadPc = "returned"
  /\ leadQueue # <<>>
  /\ leadIter < MAX_ITERATIONS

LaterEvents ==
  {"agent_start", "agent_start_pipeline", "human_response", "agent_implement",
   "agent_test", "agent_create_pr", "post_merge_monitor"}

\* C7: an event of any of the seven types that finds the session cancelled
\* runs no capability and no lead loop, and writes neither phase nor
\* status.
C7_CancelledIsTerminal ==
  (last.ev \in LaterEvents /\ last.status0 = "cancelled")
  => /\ last.caps = <<>>
     /\ ~last.lead
     /\ last.phases = <<>>
     /\ last.statuses = <<>>

PhaseOrder ==
  <<"clarifying", "scoping", "designing", "planning", "implementing",
    "testing", "completed">>

\* the position of a phase in the documented order; 0 before the row exists
PhaseRank(phase) ==
  IF \E i \in DOMAIN PhaseOrder : PhaseOrder[i] = phase
  THEN CHOOSE i \in DOMAIN PhaseOrder : PhaseOrder[i] = phase
  ELSE 0

PipelineEvents ==
  {"agent_start_pipeline", "human_response", "agent_implement", "agent_test"}

\* C8: in an event of the fixed pipeline (agent_start_pipeline, a
\* human_response that does not go to the lead, agent_implement,
\* agent_test) every phase write lands on the same or a later position of
\* the order than the phase before it.
C8_MonotonicPhases ==
  (last.ev \in PipelineEvents /\ ~last.lead)
  => LET written == <<last.phase0>> \o last.phases IN
     \A i \in 1..(Len(written) - 1) :
        PhaseRank(written[i]) <= PhaseRank(written[i + 1])

\* C9: when runTeamLead returns 'waiting_for_human', the status on the row
\* at that moment is 'paused'.
C9_SuspensionSetsPaused ==
  leadResult.status = "waiting_for_human" => leadResult.persisted = "paused"

(***************************************************************************)
(* The approval of a plan that went back for approval.                     *)
(***************************************************************************)
\* the event in hand is a reply, read as class, to a plan that an
\* implementer delegation of an earlier run sent back for approval
AnswersPlan(class) ==
  /\ last.ev = "human_response"
  /\ last.lead
  /\ approval.class = class
  /\ approval.answers # ""

\* C11: once an implementer delegation has sent an external-tool plan back
\* for approval and the human replies approve, the plan is recorded as the
\* approved plan, and the next implementer delegation runs the external
\* tool in execute mode with that plan: it asks for no new plan and runs no
\* direct tool loop.
C11_ApprovedPlanIsExecuted ==
  AnswersPlan("approve") =>
    /\ sess.meta.approved_claude_code_plan = approval.answers
    /\ approval.delegated =>
         /\ approval.path = "execute"
         /\ approval.answers \in Range(execLog)

\* C12: once the human replies basic to a plan that went back for approval,
\* no plan is pending any more, and the next implementer delegation runs
\* the direct tool loop (runBasicImplementer) and asks for no other
\* external-tool plan, although the score is still at the threshold.
C12_BasicReplyRunsDirectLoop ==
  AnswersPlan("basic") =>
    /\ sess.meta.pending_claude_code_plan = ""
    /\ approval.delegated => approval.path = "basic"

(***************************************************************************)
(* A loop that runs out of iterations.                                     *)
(***************************************************************************)
\* C13: when a loop run for a session (the lead loop, the pipeline
\* implementer, the direct implementer the lead delegates to) uses up its
\* ceiling without a sentinel, the run returns without raising and the
\* status on the row is 'paused' when the event has finished.
C13_CeilingPausesSession ==
  (LeadAtRest /\ "ceiling" \in Range(last.caps))
  => /\ leadResult.status # "throw"
     /\ sess.status = "paused"

(***************************************************************************)
(* The changed-file list of an implementer loop.                           *)
(***************************************************************************)
NoDuplicates(seq) ==
  \A i, j \in 1..Len(seq) : seq[i] = seq[j] => i = j

\* C14: at every point of a run of an implementer loop the changed-file
\* list has no duplicates and holds exactly the target paths of the
\* write_file and apply_diff calls of the run that returned success: a
\* write or edit that failed adds nothing.
C14_ChangedFilesAreSuccessfulWrites ==
  lkind \in ImplementerLoops
  => /\ NoDuplicates(lchanged)
     /\ Range(lchanged) = lwrote

\* C15: when the first response that contains the completion sentinel
\* arrives at iteration k, the implementer loop returns success with k
\* iterations made and the changed-file list as iterations 1..k-1 left it;
\* at k = 1 that is one call and an empty list.
C15_CompletionAtFirstSentinel ==
  [][(/\ lkind \in ImplementerLoops
      /\ lpc = "respond"
      /\ ~lresp.throws
      /\ AnyBlockIncludes(lresp, COMPLETE_SENTINEL))
     => /\ lpc' = "returned"
        /\ lret' = "complete"
        /\ liter' = liter /\ lcalls' = lcalls /\ lcalls = liter
        /\ lchanged' = lchanged]_vars

DiffTarget == ResolveFor(req.ver, req.repo, req.input.path).path

\* C17: when the file holds no occurrence of original any more after an
\* apply_diff that succeeded, the same apply_diff once more fails with
\* "original text not found" and leaves the file as it is.
C17_NoSilentReapply ==
  [][(/\ epc = "done" /\ epc' = "again"
      /\ ~Includes(disk[DiffTarget], req.input.original))
     => /\ ~result'.success
        /\ result'.error = NotFoundError
        /\ disk' = disk]_vars

\* the second apply_diff of "ab" -> "X" on a file that held "ab"
C17_Witness ==
  /\ epc = "again"
  /\ req.input.path = "src/a.ts"
  /\ req.input.replacement = "X"
  /\ disk["/r/src/a.ts"] = "X"
  /\ ~result.success
  /\ result.error = NotFoundError

\* content with its first occurrence of original cut out and replacement
\* put there as it stands
LiteralSplice(content, original, replacement) ==
  LET i == IndexOf(content, original) IN
  SubSeq(content, 1, i - 1) \o replacement
    \o SubSeq(content, i + Len(original), Len(content))

\* C18: when original occurs in the file, the content after apply_diff is
\* the text before the first occurrence, then replacement taken literally,
\* then the text after that occurrence with the later occurrences as they
\* were, for every replacement, those with $ sequences included.
C18_LiteralReplacement ==
  (epc = "done" /\ req.tool = "apply_diff" /\ result.success)
  => disk[DiffTarget] = LiteralSplice(InitDisk[DiffTarget], req.input.original,
                                      req.input.replacement)

(***************************************************************************)
(* Paths that leave the root.                                              *)
(***************************************************************************)
\* the path as supplied, resolved against the root, lies outside the root
Escapes(repo, p) == ~InsideRoot(repo, pathResolve(pathResolve1(repo), p))

\* C19: a read_file, write_file, list_directory or apply_diff call whose
\* path, by its '..' segments or its absolute prefix, names a target outside
\* the root fails with the path-traversal error; the path is never turned
\* into another path inside the root and served.
C19_TraversalNeverCorrected ==
  (/\ epc = "done"
   /\ req.ver = "current"
   /\ req.tool \in PathTools
   /\ Escapes(req.repo, req.input.path))
  => (~result.success /\ result.error = TraversalError)

(***************************************************************************)
(* The completed session.                                                  *)
(***************************************************************************)
\* C20: in every state reached when an event has finished, after any
\* sequence of events in both modes, the status of the session is
\* 'completed' exactly when its phase is 'completed'.
C20_CompletedTogether ==
  (LeadAtRest /\ sess.exists)
  => (sess.status = "completed" <=> sess.phase = "completed")

(***************************************************************************)
(* Replies.                                                                *)
(***************************************************************************)
\* C21: a human_response for a session whose phase or status is
\* 'completed' runs no capability and no lead loop, writes no phase, no
\* status, no message and no metadata, and posts the comment that says the
\* ticket has been processed already; in both modes.
C21_CompletedReplyIsNoOp ==
  (/\ last.ev = "human_response"
   /\ (last.phase0 = "completed" \/ last.status0 = "completed"))
  => /\ last.caps = <<>>
     /\ ~last.lead
     /\ last.phases = <<>>
     /\ last.statuses = <<>>
     /\ last.notes = <<"explained">>

\* C22: for a session whose status is 'paused', however it got there, the
\* next human_response writes the status back to 'active' and processing
\* goes on (a capability or the lead loop runs), in both modes.
C22_PausedResumesOnReply ==
  (last.ev = "human_response" /\ last.status0 = "paused")
  => /\ last.statuses # <<>>
     /\ last.statuses[1] = "active"
     /\ (last.lead \/ last.caps # <<>>)

(***************************************************************************)
(* The phase transitions of the fixed pipeline.                            *)
(***************************************************************************)
\* the capability that owns a phase
OwnerOf(phase) ==
  CASE phase = "clarifying" -> "clarifier"
    [] phase = "scoping" -> "scope"
    [] phase = "designing" -> "designer"
    [] phase = "planning" -> "planner"
    [] phase = "implementing" -> "implementer"
    [] phase = "testing" -> "tester"
    [] OTHER -> "none"

\* the phases that may follow a phase: the next one of the order, and
\* 'completed' after 'planning' where the refinement flow ends
NextPhases(phase) ==
  {PhaseOrder[i + 1] : i \in {j \in 1..(Len(PhaseOrder) - 1) : PhaseOrder[j] = phase}}
  \cup (IF phase = "planning" THEN {"completed"} ELSE {})

\* C23: in the fixed pipeline a handler moves the phase only to the next
\* phase, and only in an event in which the capability that owns the phase
\* left behind has run to its completion sentinel; without it the phase
\* stays.
C23_SentinelGatedTransitions ==
  (last.ev \in PipelineEvents /\ ~last.lead /\ last.phase0 # "none")
  => LET written == <<last.phase0>> \o last.phases IN
     \A i \in 1..(Len(written) - 1) :
        /\ written[i + 1] \in NextPhases(written[i])
        /\ OwnerOf(written[i]) \in Range(last.caps)

(***************************************************************************)
(* The complexity score: analyzeTaskComplexity on its own, for plans put   *)
(* together from fragments, with and without a design.                     *)
(***************************************************************************)
Fragments ==
  <<"a.ts b.tsx", "c.js d.md", "e.json", "migrate", "Refactor", "codebase",
    "restructure", "redesign", "from x to y", "convert">>

\* the design text when there is one
LayoutDesign == "Layout.css"

\* the fragments chosen, in order, with a blank between
RECURSIVE TextOfFrom(_, _)
TextOfFrom(chosen, i) ==
  IF i > Len(Fragments) THEN ""
  ELSE LET rest == TextOfFrom(chosen, i + 1) IN
       IF i \notin chosen THEN rest
       ELSE IF rest = "" THEN Fragments[i]
       ELSE Fragments[i] \o " " \o rest

TextOf(chosen) == TextOfFrom(chosen, 1)

\* the rows a delegation to the implementer may find: a simple or a complex
\* plan, with or without a plan of the external tool approved
ImplementerMetadata ==
  {[EmptyMeta EXCEPT !.plan = plan, !.approved_claude_code_plan = approved] :
     plan \in PlanTexts, approved \in {"", "claude plan"}}

\* the replies a human may give to a plan
ReplyInputs ==
  Comments \cup {"approve", "Approved.", "BASIC", "use basic tools",
                 "not approved", "no"}

InitScore ==
  /\ req = NoRequest
  /\ epc = "idle"
  /\ result = Pending
  /\ accessed = {}
  /\ spawned = {}
  /\ disk = InitDisk
  /\ LoopIdle
  /\ SessionIdle
  /\ \/ \E chosen \in SUBSET (DOMAIN Fragments), withDesign \in BOOLEAN :
          calc = [pc |-> "ready", chosen |-> chosen, withDesign |-> withDesign,
                  plan |-> TextOf(chosen),
                  design |-> IF withDesign THEN LayoutDesign ELSE ""]
     \/ \E metadata \in ImplementerMetadata, env \in AgentEnvs("implementer") :
          calc = [pc |-> "delegated", metadata |-> metadata, env |-> env]
     \/ \E pendingPlan \in {"", "claude plan"}, comment_body \in ReplyInputs :
          calc = [pc |-> "commented", comment_body |-> comment_body,
                  metadata |-> [EmptyMeta EXCEPT
                                  !.pending_claude_code_plan = pendingPlan]]

\* const complexity = analyzeTaskComplexity(plan, design)
Analyze ==
  /\ calc.pc = "ready"
  /\ calc' = [pc |-> "done", chosen |-> calc.chosen,
              withDesign |-> calc.withDesign,
              plan |-> calc.plan, design |-> calc.design,
              complexity |-> analyzeTaskComplexity(calc.plan, calc.design)]
  /\ UNCHANGED <<req, epc, result, accessed, spawned, disk, loopVars,
                 sessVars, leadVars>>

\* case 'implementer': return await runImplementerAgent(...)
Implement ==
  /\ calc.pc = "delegated"
  /\ calc' = [pc |-> "returned", metadata |-> calc.metadata, env |-> calc.env,
              agentResult |-> runAgentForTeamLead("implementer", calc.metadata,
                                                  calc.env)]
  /\ UNCHANGED <<req, epc, result, accessed, spawned, disk, loopVars,
                 sessVars, leadVars>>

\* the row after runTeamLead has stored what the delegation gave
rowAfterDelegation(metadata, agentResult) ==
  IF hasMetadataUpdate("implementer", agentResult)
  THEN updateMetadata([meta |-> metadata],
                      metadataUpdateOf("implementer", agentResult)).meta
  ELSE metadata

\* a further delegation to the implementer after one that ran the external
\* tool in execute mode: in the same run, with the session as the handler
\* read it, or in the run of a later event, with the row as it stands
ImplementAgain ==
  /\ calc.pc = "returned"
  /\ calc.agentResult.executed # <<>>
  /\ \E env \in AgentEnvs("implementer"), sameRun \in BOOLEAN :
       LET given == IF sameRun THEN calc.metadata
                    ELSE rowAfterDelegation(calc.metadata, calc.agentResult)
       IN  calc' = [pc |-> "again", metadata |-> given, env |-> env,
                    sameRun |-> sameRun,
                    agentResult |-> runAgentForTeamLead("implementer", given, env)]
  /\ UNCHANGED <<req, epc, result, accessed, spawned, disk, loopVars,
                 sessVars, leadVars>>

\* handleTeamLeadHumanResponse from the reading of the reply to
\* sessionService.updateMetadata(session.id, metadataUpdate)
Reply ==
  /\ calc.pc = "commented"
  /\ LET pendingPlan == calc.metadata.pending_claude_code_plan
         metadataUpdate == replyUpdate(pendingPlan, calc.comment_body)
     IN  calc' = [pc |-> "stored", comment_body |-> calc.comment_body,
                  metadata |-> calc.metadata,
                  stored |-> updateMetadata([meta |-> calc.metadata],
                                            metadataUpdate).meta]
  /\ UNCHANGED <<req, epc, result, accessed, spawned, disk, loopVars,
                 sessVars, leadVars>>

NextScore == Analyze \/ Implement \/ ImplementAgain \/ Reply

SpecScore == InitScore /\ [][NextScore]_vars

\* 1 when the condition holds, 0 otherwise
Holds(b) == IF b THEN 1 ELSE 0

\* the file references of the texts in hand, counted by what was put in
FileReferences ==
  2 * Holds(1 \in calc.chosen) + 2 * Holds(2 \in calc.chosen)
  + Holds(3 \in calc.chosen) + Holds(calc.withDesign)

\* the contributions the score shares under every reading: files, keywords
\* (migrate, refactor in the plan, layout in the design), codebase-wide
CommonContributions ==
  30 * Holds(FileReferences > 3)
  + 15 * (Holds(4 \in calc.chosen) + Holds(5 \in calc.chosen)
          + Holds(calc.withDesign))
  + 25 * Holds(6 \in calc.chosen)

\* the score by the table as documented: architectural or restructure
\* wording, a 'from ... to' pattern
TableScore ==
  CommonContributions
  + 20 * Holds(7 \in calc.chosen)
  + 20 * Holds(9 \in calc.chosen)

\* the score by the table with the words of the code: 'redesign' counts as
\* architectural wording, and 'from' and 'to' count only together with
\* 'migrate' or 'convert'
AmendedTableScore ==
  CommonContributions
  + 20 * Holds(7 \in calc.chosen \/ 8 \in calc.chosen)
  + 20 * Holds(9 \in calc.chosen
               /\ (4 \in calc.chosen \/ 10 \in calc.chosen))

C25_ScoreWithinHundred ==
  calc.pc = "done"
  => (calc.complexity.score >= 0 /\ calc.complexity.score <= 100)

Callers == {1, 2}

MessageInputs == {"m1", "m2"}

MetadataKeys == {"scope", "design", "plan"}

\* the columns of the row as the calls find them
StoredConversations == {<<>>, <<"m0">>}

StoredMetadata ==
  {[k \in MetadataKeys |-> ""],
   [k \in MetadataKeys |-> IF k = "scope" THEN "old" ELSE ""]}

\* a call before its first request
Called(arg) == [at |-> "called", arg |-> arg, session |-> <<>>]

InitConcurrent ==
  /\ req = NoRequest
  /\ epc = "idle"
  /\ result = Pending
  /\ accessed = {}
  /\ spawned = {}
  /\ disk = InitDisk
  /\ LoopIdle
  /\ SessionIdle
  /\ \E conversation \in StoredConversations, metadata \in StoredMetadata :
       \/ \E messages \in [Callers -> MessageInputs] :
            calc = [pc |-> "addMessage",
                    conversation |-> conversation, metadata |-> metadata,
                    call |-> [c \in Callers |-> Called(messages[c])]]
       \/ \E keys \in [Callers -> MetadataKeys] :
            /\ keys[1] # keys[2]
            /\ calc = [pc |-> "updateMetadata",
                       conversation |-> conversation, metadata |-> metadata,
                       call |-> [c \in Callers |->
                                   Called([key |-> keys[c], value |-> "new"])]]

\* .select('conversation').eq('id', sessionId).single()
addMessageSelect(c) ==
  /\ calc.pc = "addMessage"
  /\ calc.call[c].at = "called"
  /\ calc' = [calc EXCEPT !.call[c].at = "selected",
                          !.call[c].session = calc.conversation]
  /\ UNCHANGED <<req, epc, result, accessed, spawned, disk, loopVars,
                 sessVars, leadVars>>

\* conversation = [...session.conversation, message]; .update({conversation})
addMessageUpdate(c) ==
  /\ calc.pc = "addMessage"
  /\ calc.call[c].at = "selected"
  /\ calc' = [calc EXCEPT
       !.call[c].at = "returned",
       !.conversation = Append(calc.call[c].session, calc.call[c].arg)]
  /\ UNCHANGED <<req, epc, result, accessed, spawned, disk, loopVars,
                 sessVars, leadVars>>

\* .select('metadata').eq('id', sessionId).single()
updateMetadataSelect(c) ==
  /\ calc.pc = "updateMetadata"
  /\ calc.call[c].at = "called"
  /\ calc' = [calc EXCEPT !.call[c].at = "selected",
                          !.call[c].session = calc.metadata]
  /\ UNCHANGED <<req, epc, result, accessed, spawned, disk, loopVars,
                 sessVars, leadVars>>

\* mergedMetadata = {...session.metadata, ...metadata};
\* .update({metadata: mergedMetadata})
updateMetadataUpdate(c) ==
  /\ calc.pc = "updateMetadata"
  /\ calc.call[c].at = "selected"
  /\ calc' = [calc EXCEPT
       !.call[c].at = "returned",
       !.metadata = [calc.call[c].session EXCEPT
                       ![calc.call[c].arg.key] = calc.call[c].arg.value]]
  /\ UNCHANGED <<req, epc, result, accessed, spawned, disk, loopVars,
                 sessVars, leadVars>>

NextConcurrent ==
  \E c \in Callers :
    \/ addMessageSelect(c)
    \/ addMessageUpdate(c)
    \/ updateMetadataSelect(c)
    \/ updateMetadataUpdate(c)

SpecConcurrent == InitConcurrent /\ [][NextConcurrent]_vars

\* both calls have returned
BothReturned == \A c \in Callers : calc.call[c].at = "returned"

\* how often the message stands in the conversation
Occurrences(conversation, message) ==
  Cardinality({i \in DOMAIN conversation : conversation[i] = message})

\* C27: when two addMessage calls, or two updateMetadata calls for
\* different keys, on one session have both returned, in whatever order
\* their requests were served, both messages stand in the conversation and
\* both keys in the metadata.
C27_ConcurrentWritesBothKept ==
  /\ (calc.pc = "addMessage" /\ BothReturned)
       => \A m \in MessageInputs :
            Occurrences(calc.conversation, m)
              = Cardinality({c \in Callers : calc.call[c].arg = m})
  /\ (calc.pc = "updateMetadata" /\ BothReturned)
       => \A c \in Callers :
            calc.metadata[calc.call[c].arg.key] = calc.call[c].arg.value

StartEvents == {"agent_start", "agent_start_pipeline"}

\* C28: after a start event there is a session for the key; the event has
\* created it exactly when none existed before, and no start event has an
\* insert refused because the session already exists, whatever its status.
C28_CreatedOnce ==
  last.ev \in StartEvents
  => /\ sess.exists
     /\ ("created" \in Range(last.notes)) <=> (last.status0 = "none")
     /\ "insert refused" \notin Range(last.notes)

\* the artifacts of a session a capability is given
Artifacts(metadata) ==
  [k \in {"scope", "design", "plan", "approved_claude_code_plan"} |->
     metadata[k]]

\* C29: in every iteration of a lead run after the first, the session a
\* delegated capability is given holds the scope, design, plan and approved
\* plan of the row as earlier delegations of the run have left it.
C29_DelegationsSeeLiveSession ==
  (/\ leadPc = "tools"
   /\ leadIter > 1
   /\ leadQueue # <<>>
   /\ Head(leadQueue).name = "delegate_to_agent")
  => Artifacts(leadSnap) = Artifacts(sess.meta)

\* the names of READ_ONLY_TOOLS
ReadOnlyToolNames == {"read_file", "list_directory", "search_code"}

\* C30: in a run of runAgentWithContext only read_file, list_directory and
\* search_code are executed, and no file is written, whatever tool names
\* the responses hold.
C30_ContextLoopReadsOnly ==
  lkind = "runAgentWithContext"
  => /\ Range(lexec) \subseteq ReadOnlyToolNames
     /\ lwrote = {}
     /\ disk = InitDisk

\* the phases of the refinement flow, each owned by one capability
RefinementPhases == {"clarifying", "scoping", "designing", "planning"}

\* the reply went to the lead handler exactly for a team-lead session, and
\* otherwise the message was appended before anything else
RepliesRouted ==
  IF sess.mode = "team-lead" THEN last.lead
  ELSE /\ ~last.lead
       /\ last.notes # <<>>
       /\ last.notes[1] = "message"

\* C31 as stated: a human_response for an active session goes to the lead
\* handler exactly when the mode is 'team-lead'; otherwise the message is
\* appended first and then exactly the capability owning the current phase
\* runs, and none when no capability owns the phase.
C31_OwnerAloneRuns ==
  (last.ev = "human_response" /\ last.status0 = "active")
  => /\ RepliesRouted
     /\ sess.mode # "team-lead"
          => last.caps = IF last.phase0 \in RefinementPhases
                         THEN <<OwnerOf(last.phase0)>> ELSE <<>>

\* C31: a human_response for an active session goes to the lead handler
\* exactly when the mode is 'team-lead'; otherwise the message is appended
\* first and the capability owning the current phase runs first; every
\* further capability of the event owns the phase the one before it has
\* just written; when no capability owns the phase none runs.
C31_OwnerRunsFirst ==
  (last.ev = "human_response" /\ last.status0 = "active")
  => /\ RepliesRouted
     /\ sess.mode # "team-lead"
          => IF last.phase0 \in RefinementPhases
             THEN /\ last.caps # <<>>
                  /\ last.caps[1] = OwnerOf(last.phase0)
                  /\ \A i \in 2..Len(last.caps) :
                       /\ i - 1 <= Len(last.phases)
                       /\ last.caps[i] = OwnerOf(last.phases[i - 1])
             ELSE last.caps = <<>>

\* a reply to a pipeline session in its design phase: the designer runs
C31_Witness ==
  /\ last.ev = "human_response"
  /\ last.status0 = "active"
  /\ sess.mode = "pipeline"
  /\ last.phase0 = "designing"
  /\ last.notes[1] = "message"
  /\ last.caps = <<"designer">>

\* C32: after an agent_stop for a session that was 'active' or 'paused' the
\* status is 'cancelled' and nothing else of the row was written; for a
\* missing, completed or cancelled session the event writes nothing.
C32_StopCancels ==
  last.ev = "agent_stop"
  => /\ last.phases = <<>>
     /\ last.notes = <<>>
     /\ IF last.status0 \in {"active", "paused"}
        THEN last.statuses = <<"cancelled">> /\ sess.status = "cancelled"
        ELSE last.statuses = <<>>

\* the artifacts no handler and no capability ever writes empty
KeptKeys == {"scope", "design", "plan"}

C34_CancellationSurvivesRun ==
  "cancelled in flight" \in Range(last.notes) => sess.status = "cancelled"

\* C35: every history a bounded tool-call loop has sent to the reasoning
\* service starts with a user message, alternates user and assistant, and
\* answers every assistant message that asked for tools with one user
\* message of as many results.
C35_HistoryWellFormed == lmsgs.sentWellFormed

ResolvedProtected(repo, location) ==
  \E i \in 1..Len(PROTECTED_PATHS) :
    LET root == pathResolve1(repo)
        entry == (IF root = "/" THEN "" ELSE root) \o "/" \o PROTECTED_PATHS[i]
    IN  location = entry \/ StartsWith(location, entry \o "/")

\* the files a call has created or changed
Modified ==
  {f \in DOMAIN disk : f \notin DOMAIN InitDisk \/ disk[f] # InitDisk[f]}

\* C37: no write_file or apply_diff that succeeds has created or changed a
\* file that is a protected entry of the root or lies under one, however
\* the path was spelled.
C37_ResolvedTargetProtected ==
  (epc \in {"done", "again"} /\ req.tool \in {"write_file", "apply_diff"}
     /\ result.success)
  => \A f \in Modified : ~ResolvedProtected(req.repo, f)

\* the replies of the inputs by what the human means with them
ApproveCommands == {" Approve ", "approve", "Approved."}
BasicCommands == {"basic", "BASIC", "use basic tools"}
ModifyCommands == {"modify: fewer files"}

\* the plan keys of the metadata
PlanKeys ==
  {"pending_claude_code_plan", "approved_claude_code_plan", "use_basic_tools",
   "plan_modifications"}

CascadeOrder == <<"clarifier", "scope", "designer", "planner">>

\* the events that start or continue the refinement flow of the pipeline
CascadeEvents == {"agent_start_pipeline", "human_response"}

\* C39: in one pipeline event the capabilities run in the order clarifier,
\* scope, designer, planner from the owner of the current phase on (the
\* clarifier for a new session); each further one follows its predecessor
\* in that order and runs after the phase it owns was written; at most
\* four run.
C39_CascadeFromOwner ==
  (last.ev \in CascadeEvents /\ ~last.lead /\ last.caps # <<>>)
  => LET start == IF last.phase0 = "none" THEN "clarifying" ELSE last.phase0
     IN  /\ last.caps[1] = OwnerOf(start)
         /\ Len(last.caps) <= Len(CascadeOrder)
         /\ \A i \in 2..Len(last.caps) :
              /\ \E k \in 1..(Len(CascadeOrder) - 1) :
                   /\ CascadeOrder[k] = last.caps[i - 1]
                   /\ CascadeOrder[k + 1] = last.caps[i]
              /\ i - 1 <= Len(last.phases)
              /\ OwnerOf(last.phases[i - 1]) = last.caps[i]

\* the phases in which handleImplement lets the implementer run
ImplementPhases == {"planning", "completed"}

\* the checks whose failure falsifies the verdict of the tester
BlockingChecks == {"Type Check", "Build", "Unit Tests"}

\* the tester of the last event returned passed: none of the blocking
\* checks is among the failures noted
TesterPassed == Range(last.notes) \cap BlockingChecks = {}

\* the position of a capability among those the last event ran, 0 when it
\* did not run
RanAt(name) ==
  IF name \in Range(last.caps)
  THEN CHOOSE i \in DOMAIN last.caps : last.caps[i] = name
  ELSE 0

\* C40: in an agent_implement event the implementer runs only if the phase
\* is 'planning' or 'completed', and otherwise phase and status stay as
\* they were; the tester runs only after the implementer has returned with
\* the session still 'active'; the PR creator runs only after the tester
\* returned passed, which takes the type check, the build and the unit
\* tests to succeed while a lint failure does not block; the phase is set
\* to 'testing' only when passed.
C40_ImplementTestPROrder ==
  last.ev = "agent_implement"
  => /\ RanAt("implementer") > 0 => last.phase0 \in ImplementPhases
     /\ last.phase0 \notin ImplementPhases
          => /\ last.caps = <<>>
             /\ last.phases = <<>> /\ last.statuses = <<>>
             /\ sess.phase = last.phase0 /\ sess.status = last.status0
     /\ RanAt("tester") > 0
          => /\ RanAt("implementer") = 1 /\ RanAt("tester") = 2
             /\ last.status0 = "active" /\ last.statuses = <<>>
             /\ sess.status = "active"
             /\ (RanAt("pr-creator") > 0) <=> TesterPassed
             /\ ("testing" \in Range(last.phases)) <=> TesterPassed
     /\ RanAt("pr-creator") > 0
          => /\ RanAt("tester") = 2 /\ RanAt("pr-creator") = 3
             /\ last.phases = <<"implementing", "testing">>
     /\ "testing" \in Range(last.phases) => RanAt("tester") > 0

\* an agent_implement on a planning session: the implementer completes,
\* lint alone fails, the tester passes and the PR creator runs
C40_Witness ==
  /\ last.ev = "agent_implement"
  /\ last.phase0 = "planning"
  /\ last.status0 = "active"
  /\ "Lint" \in Range(last.notes)
  /\ last.caps = <<"implementer", "tester", "pr-creator">>
  /\ sess.phase = "testing"
  /\ sess.meta.testsPassed

====
